---------------------------- MODULE Spec2Model ----------------------------
(***************************************************************************)
(* A model of motleycoder's code-map core and structural edit engine:      *)
(*   - the search/replace engine of codemap/file_group.py (replace_part    *)
(*     and its three strategies) and FileGroup.edit_file,                  *)
(*   - FileGroup.cached_function_call and its mtime-keyed cache,           *)
(*   - RepoMap.get_tag_graph with its in-memory graph memo, and            *)
(*     FileEditTool's invalidation of that memo,                           *)
(*   - RepoMap.get_repo_map / find_best_tag_tree (binary-search packing).  *)
(*                                                                         *)
(* Text is modelled as a sequence of one-character strings.  The character *)
(* "|" stands for the line-number separator U+2502 of the source.          *)
(***************************************************************************)
EXTENDS Integers, Sequences, FiniteSets, Bags, TLC

(***************************************************************************)
(* Python values                                                           *)
(***************************************************************************)

\* Python's None, kept apart from every text (texts hold one-character strings).
None == <<"None">>

\* Python truthiness of an optional text: None and "" are falsy.
Truthy(x) == x /= None /\ x /= <<>>

\* The whitespace str.strip()/lstrip() and the regex class \s remove.
Whitespace == {" ", "\n"}

\* The decimal digits matched by the regex class \d.
Digits == {"1"}

NL == "\n"

\* s[i:] and s[:i] for 1-based positions.
Drop(s, n) == SubSeq(s, n + 1, Len(s))

Take(s, n) == SubSeq(s, 1, n)

\* Python's s[:k] for any integer k: a negative k counts from the end.
PySlicePrefix(s, k) ==
  IF k >= 0
  THEN Take(s, IF k > Len(s) THEN Len(s) ELSE k)
  ELSE Take(s, IF Len(s) + k < 0 THEN 0 ELSE Len(s) + k)

RECURSIVE CountLeading(_, _, _)
\* The number of leading characters of s, from position i on, that lie in set.
CountLeading(s, i, set) ==
  IF i > Len(s) \/ s[i] \notin set THEN 0 ELSE 1 + CountLeading(s, i + 1, set)

\* str.lstrip()
lstrip(s) == Drop(s, CountLeading(s, 1, Whitespace))

\* bool(s.strip()): the text holds a non-whitespace character.
NonBlank(s) == \E i \in 1..Len(s) : s[i] \notin Whitespace

\* s.startswith(t, i - 1)
StartsWithAt(s, t, i) ==
  /\ i + Len(t) - 1 <= Len(s)
  /\ SubSeq(s, i, i + Len(t) - 1) = t

RECURSIVE Find(_, _, _)
\* str.find: the first position >= i at which t occurs in s, 0 if none.
Find(s, t, i) ==
  IF i + Len(t) - 1 > Len(s) THEN 0
  ELSE IF StartsWithAt(s, t, i) THEN i
  ELSE Find(s, t, i + 1)

\* t in s
Contains(s, t) == Find(s, t, 1) /= 0

\* s.endswith("\n")
EndsWithNL(s) == Len(s) > 0 /\ s[Len(s)] = NL

RECURSIVE Count(_, _)
\* str.count(t): non-overlapping occurrences of a non-empty t.
Count(s, t) ==
  LET p == Find(s, t, 1)
  IN IF p = 0 THEN 0 ELSE 1 + Count(Drop(s, p + Len(t) - 1), t)

RECURSIVE Replace(_, _, _, _)
\* str.replace(old, new, count) for a non-empty old; count < 0 replaces all.
Replace(s, old, new, count) ==
  LET p == Find(s, old, 1)
  IN IF p = 0 \/ count = 0 THEN s
     ELSE Take(s, p - 1) \o new
          \o Replace(Drop(s, p + Len(old) - 1), old, new, count - 1)

RECURSIVE Join(_)
\* "".join(lines)
Join(lines) ==
  IF lines = <<>> THEN <<>> ELSE Head(lines) \o Join(Tail(lines))

RECURSIVE SplitLinesKeepEnds(_)
\* str.splitlines(keepends=True)
SplitLinesKeepEnds(s) ==
  IF s = <<>> THEN <<>>
  ELSE LET p == Find(s, <<NL>>, 1)
       IN IF p = 0 THEN <<s>>
          ELSE <<Take(s, p)>> \o SplitLinesKeepEnds(Drop(s, p))

(***************************************************************************)
(* The search/replace engine (codemap/file_group.py)                       *)
(***************************************************************************)

\* What replace_with_dotdotdots raising ValueError is recorded as.
ValueError == <<"ValueError">>

\* re.sub(r"^\d+\s*|", "", line): drop a leading line number and separator.
StripLineNumber(line) ==
  LET d == CountLeading(line, 1, Digits)
      w == CountLeading(line, d + 1, Whitespace)
  IN IF d >= 1 /\ d + w + 1 <= Len(line) /\ line[d + w + 1] = "|"
     THEN Drop(line, d + w + 1)
     ELSE line

\* prepare_content_and_lines: newline-terminate, split, strip line numbers.
prepare_lines(content) ==
  LET c == IF content /= <<>> /\ ~EndsWithNL(content)
           THEN content \o <<NL>> ELSE content
      lines == SplitLinesKeepEnds(c)
  IN [i \in 1..Len(lines) |-> StripLineNumber(lines[i])]

prepare_content(content) == Join(prepare_lines(content))

\* Mutant of perfect_replace_part: str.replace(search, replace, 1).
perfect_replace_part_first(orig_content, search_content, replace_content) ==
  IF Contains(orig_content, search_content)
  THEN Replace(orig_content, search_content, replace_content, 1)
  ELSE None

\* Mutant of perfect_replace_part: the text after the first occurrence is lost.
perfect_replace_part_truncates(orig_content, search_content, replace_content) ==
  IF Contains(orig_content, search_content)
  THEN Take(orig_content, Find(orig_content, search_content, 1) - 1)
         \o replace_content
  ELSE None

\* perfect_replace_part: str.replace of every occurrence, None when absent.
perfect_replace_part(orig_content, search_content, replace_content) ==
  IF Contains(orig_content, search_content)
  THEN Replace(orig_content, search_content, replace_content, -1)
  ELSE None

\* Mutant of match_but_for_leading_whitespace: the first line's offset is left
\* out of the comparison whenever another non-blank line gives one.
match_ignoring_first_line(whole_lines, part_lines) ==
  LET num == Len(whole_lines)
      rest == { j \in 2..num : NonBlank(whole_lines[j]) }
      used == IF rest = {} THEN { j \in 1..num : NonBlank(whole_lines[j]) } ELSE rest
  IN IF ~ \A i \in 1..num : lstrip(whole_lines[i]) = lstrip(part_lines[i])
     THEN None
     ELSE LET add == { PySlicePrefix(whole_lines[i],
                                     Len(whole_lines[i]) - Len(part_lines[i])) :
                       i \in used }
          IN IF Cardinality(add) /= 1 THEN None ELSE CHOOSE x \in add : TRUE

\* match_but_for_leading_whitespace: the common offset of the window, or None.
match_but_for_leading_whitespace(whole_lines, part_lines) ==
  LET num == Len(whole_lines)
  IN IF ~ \A i \in 1..num : lstrip(whole_lines[i]) = lstrip(part_lines[i])
     THEN None
     ELSE LET add == { PySlicePrefix(whole_lines[i],
                                     Len(whole_lines[i]) - Len(part_lines[i])) :
                       i \in { j \in 1..num : NonBlank(whole_lines[j]) } }
          IN IF Cardinality(add) /= 1 THEN None ELSE CHOOSE x \in add : TRUE

\* len(p) - len(p.lstrip()) of the non-blank lines of both blocks.
LeadingCounts(search_lines, replace_lines) ==
  { CountLeading(search_lines[i], 1, Whitespace) :
      i \in { j \in 1..Len(search_lines) : NonBlank(search_lines[j]) } }
  \cup
  { CountLeading(replace_lines[i], 1, Whitespace) :
      i \in { j \in 1..Len(replace_lines) : NonBlank(replace_lines[j]) } }

\* min(leading) when leading is non-empty, else 0 (no outdent either way).
NumLeading(search_lines, replace_lines) ==
  LET leading == LeadingCounts(search_lines, replace_lines)
  IN IF leading = {} THEN 0
     ELSE CHOOSE m \in leading : \A k \in leading : m <= k

\* [p[num_leading:] if p.strip() else p for p in lines]
Outdent(lines, num_leading) ==
  [i \in 1..Len(lines) |->
     IF NonBlank(lines[i]) THEN Drop(lines[i], num_leading) ELSE lines[i]]

\* [add_leading + rline if rline.strip() else rline for rline in replace_lines]
Reindent(lines, add_leading) ==
  [i \in 1..Len(lines) |->
     IF NonBlank(lines[i]) THEN add_leading \o lines[i] ELSE lines[i]]

\* The window starts (1-based) strategy 2 accepts, for outdented search lines.
MatchingWindows(orig_lines, search_lines) ==
  { i \in 1..(Len(orig_lines) - Len(search_lines) + 1) :
      match_but_for_leading_whitespace(
        SubSeq(orig_lines, i, i + Len(search_lines) - 1), search_lines) /= None }

\* replace_part_with_missing_leading_whitespace: strategy 2, None on no window.
replace_part_with_missing_leading_whitespace(orig_lines, search_lines, replace_lines) ==
  LET num_leading == NumLeading(search_lines, replace_lines)
      slines == Outdent(search_lines, num_leading)
      rlines == Outdent(replace_lines, num_leading)
      n == Len(slines)
      wins == MatchingWindows(orig_lines, slines)
  IN IF wins = {} THEN None
     ELSE LET i == CHOOSE w \in wins : \A v \in wins : w <= v
              add_leading == match_but_for_leading_whitespace(
                               SubSeq(orig_lines, i, i + n - 1), slines)
          IN Join(SubSeq(orig_lines, 1, i - 1)
                  \o Reindent(rlines, add_leading)
                  \o SubSeq(orig_lines, i + n, Len(orig_lines)))

\* The text of an ellipsis marker after its leading whitespace: "...\n".
DotsLine == <<".", ".", ".", NL>>

RECURSIVE FindDots(_, _)
\* The first match of the regex (^\s*\.\.\.\n) (MULTILINE) at or after position
\* i, as <<start, end>>; <<0, 0>> when there is none.  \s* also crosses newlines.
FindDots(s, i) ==
  IF i > Len(s) THEN <<0, 0>>
  ELSE LET w == CountLeading(s, i, Whitespace)
       IN IF (i = 1 \/ s[i - 1] = NL) /\ StartsWithAt(s, DotsLine, i + w)
          THEN <<i, i + w + 3>>
          ELSE FindDots(s, i + 1)

RECURSIVE SplitDots(_)
\* re.split(dots_re, s): pieces at odd positions, markers at even positions.
SplitDots(s) ==
  LET m == FindDots(s, 1)
  IN IF m[1] = 0 THEN <<s>>
     ELSE <<Take(s, m[1] - 1), SubSeq(s, m[1], m[2])>> \o SplitDots(Drop(s, m[2]))

RECURSIVE ApplyPairs(_, _, _, _)
\* The loop over zip(search_pieces, replace_pieces), from pair k on.
ApplyPairs(orig, search_pieces, replace_pieces, k) ==
  IF k > Len(search_pieces) THEN orig
  ELSE LET search == search_pieces[k]
           replace == replace_pieces[k]
       IN IF search = <<>> /\ replace = <<>>
          THEN ApplyPairs(orig, search_pieces, replace_pieces, k + 1)
          ELSE IF search = <<>>
          THEN ApplyPairs((IF EndsWithNL(orig) THEN orig ELSE orig \o <<NL>>)
                            \o replace,
                          search_pieces, replace_pieces, k + 1)
          ELSE IF Count(orig, search) /= 1
          THEN ValueError
          ELSE ApplyPairs(Replace(orig, search, replace, 1),
                          search_pieces, replace_pieces, k + 1)

\* The pieces of re.split at even Python indices (the non-marker pieces).
EvenPieces(pieces) == [i \in 1..((Len(pieces) + 1) \div 2) |-> pieces[2 * i - 1]]

\* replace_with_dotdotdots: the edited text, None (no marker) or ValueError.
replace_with_dotdotdots(orig, search, replace) ==
  LET search_pieces == SplitDots(search)
      replace_pieces == SplitDots(replace)
  IN IF Len(search_pieces) /= Len(replace_pieces) THEN ValueError
     ELSE IF Len(search_pieces) = 1 THEN None
     ELSE IF \E i \in 1..Len(search_pieces) :
               i % 2 = 0 /\ search_pieces[i] /= replace_pieces[i]
     THEN ValueError
     ELSE ApplyPairs(orig, EvenPieces(search_pieces), EvenPieces(replace_pieces), 1)

\* search += "\n" unless it already ends with one (also for the empty block).
NewlineTerminated(block) == IF EndsWithNL(block) THEN block ELSE block \o <<NL>>

\* Mutant of replace_part_traced: a blank search returns the replace block
\* alone instead of text + replace.
replace_part_traced_overwrite(text, search, replace) ==
  LET s == NewlineTerminated(search)
      r == NewlineTerminated(replace)
      result1 == perfect_replace_part(prepare_content(text), prepare_content(s),
                                      prepare_content(r))
      result2 == replace_part_with_missing_leading_whitespace(
                   prepare_lines(text), prepare_lines(s), prepare_lines(r))
      result3 == replace_with_dotdotdots(prepare_content(text), prepare_content(s),
                                         prepare_content(r))
  IN IF ~NonBlank(s) THEN [result |-> r, strategy |-> "append"]
     ELSE IF Truthy(result1) THEN [result |-> result1, strategy |-> "1"]
     ELSE IF Truthy(result2) THEN [result |-> result2, strategy |-> "2"]
     ELSE IF result3 \in {ValueError, None} THEN [result |-> None, strategy |-> "0"]
     ELSE [result |-> result3, strategy |-> "3"]

\* replace_part with the strategy that produced the result: "append" (blank
\* search), "1", "2", "3", or "0" when none did.
replace_part_traced(text, search, replace) ==
  LET s == NewlineTerminated(search)
      r == NewlineTerminated(replace)
      orig_content == prepare_content(text)
      orig_lines == prepare_lines(text)
      search_content == prepare_content(s)
      search_lines == prepare_lines(s)
      replace_content == prepare_content(r)
      replace_lines == prepare_lines(r)
      result1 == perfect_replace_part(orig_content, search_content, replace_content)
      result2 == replace_part_with_missing_leading_whitespace(
                   orig_lines, search_lines, replace_lines)
      result3 == replace_with_dotdotdots(orig_content, search_content, replace_content)
  IN IF ~NonBlank(s) THEN [result |-> text \o r, strategy |-> "append"]
     ELSE IF Truthy(result1) THEN [result |-> result1, strategy |-> "1"]
     ELSE IF Truthy(result2) THEN [result |-> result2, strategy |-> "2"]
     ELSE IF result3 \in {ValueError, None} THEN [result |-> None, strategy |-> "0"]
     ELSE [result |-> result3, strategy |-> "3"]

\* replace_part: the new text, or None when no strategy applies.
replace_part(text, search, replace) == replace_part_traced(text, search, replace).result

(***************************************************************************)
(* Bounds and input sets                                                   *)
(***************************************************************************)

\* The most lines an initial file holds in the edit-engine specification.
MaxFileLines == 2

\* The most lines a SEARCH or REPLACE block holds.
MaxBlockLines == 2

\* A line of text: its characters followed by a newline.
Line(chars) == chars \o <<NL>>

FileLineSet ==
  { Line(<<"a">>), Line(<<" ", "a">>), Line(<<"1", "|", "a">>) }

SearchLineSet ==
  { Line(<<"a">>), Line(<<" ", " ", "a">>), Line(<<>>), Line(<<".", ".", ".">>) }

ReplaceLineSet ==
  { Line(<<"b">>), Line(<<" ", "b">>), Line(<<".", ".", ".">>) }

\* Every text of at most n lines drawn from lineSet.
TextsUpTo(lineSet, n) ==
  { Join(ls) : ls \in UNION { [1..k -> lineSet] : k \in 0..n } }

\* Initial file texts; one of them lacks the final newline.
EditFiles == TextsUpTo(FileLineSet, MaxFileLines) \cup { <<"a">> }

\* SEARCH blocks; one is whitespace-only and lacks the final newline.
SearchBlocks == TextsUpTo(SearchLineSet, MaxBlockLines) \cup { <<" ">> }

\* REPLACE blocks; one lacks the final newline.
ReplaceBlocks == TextsUpTo(ReplaceLineSet, MaxBlockLines) \cup { <<"b">> }

(***************************************************************************)
(* find_similar_lines, the close-match probe (codemap/file_group.py)       *)
(***************************************************************************)

\* str.splitlines(): the lines without their line ends.
SplitLines(s) ==
  LET kept == SplitLinesKeepEnds(s)
  IN [i \in DOMAIN kept |->
        IF EndsWithNL(kept[i]) THEN Take(kept[i], Len(kept[i]) - 1) ELSE kept[i]]

RECURSIVE JoinLines(_)
\* "\n".join(lines)
JoinLines(lines) ==
  IF lines = <<>> THEN <<>>
  ELSE IF Len(lines) = 1 THEN lines[1]
  ELSE lines[1] \o <<NL>> \o JoinLines(Tail(lines))

\* threshold=0.6, as a fraction.
ThresholdNum == 6

ThresholdDen == 10

\* N = 5: the lines of context on each side.
ContextLines == 5

RECURSIVE RunLength(_, _, _, _, _, _)
\* The length of the common run of a from i and b from j, below ahi and bhi.
RunLength(a, b, i, j, ahi, bhi) ==
  IF i < ahi /\ j < bhi /\ a[i] = b[j]
  THEN 1 + RunLength(a, b, i + 1, j + 1, ahi, bhi)
  ELSE 0

RECURSIVE LongestFrom(_, _, _, _, _, _, _, _, _)
\* The scan of find_longest_match from the pair (i, j) on, best being the
\* longest block met so far: a later block replaces it only when longer.
LongestFrom(a, b, alo, ahi, blo, bhi, i, j, best) ==
  IF i >= ahi THEN best
  ELSE IF j >= bhi THEN LongestFrom(a, b, alo, ahi, blo, bhi, i + 1, blo, best)
  ELSE LET k == RunLength(a, b, i, j, ahi, bhi)
       IN LongestFrom(a, b, alo, ahi, blo, bhi, i, j + 1,
                      IF k > best[3] THEN <<i, j, k>> ELSE best)

\* SequenceMatcher.find_longest_match(alo, ahi, blo, bhi) without junk:
\* <<i, j, k>>, the longest block, of those the one starting earliest in a,
\* and of those the one starting earliest in b; k = 0 when nothing matches.
find_longest_match(a, b, alo, ahi, blo, bhi) ==
  LongestFrom(a, b, alo, ahi, blo, bhi, alo, blo, <<alo, blo, 0>>)

RECURSIVE MatchedCount(_, _, _, _, _, _)
\* The sum of the sizes of SequenceMatcher.get_matching_blocks() within
\* a[alo:ahi] and b[blo:bhi]: the longest block, then the blocks to its left
\* and to its right.
MatchedCount(a, b, alo, ahi, blo, bhi) ==
  LET m == find_longest_match(a, b, alo, ahi, blo, bhi)
      i == m[1]
      j == m[2]
      k == m[3]
  IN IF k = 0 THEN 0
     ELSE k + (IF alo < i /\ blo < j
               THEN MatchedCount(a, b, alo, i, blo, j) ELSE 0)
            + (IF i + k < ahi /\ j + k < bhi
               THEN MatchedCount(a, b, i + k, ahi, j + k, bhi) ELSE 0)

\* SequenceMatcher(None, a, b).ratio() as the fraction <<2 * matches, length>>.
ratio(a, b) ==
  <<2 * MatchedCount(a, b, 1, Len(a) + 1, 1, Len(b) + 1), Len(a) + Len(b)>>

RECURSIVE BestChunk(_, _, _, _, _)
\* The loop of find_similar_lines from window i (counted from 1) on:
\* <<best_match_i, matches of the best ratio>>; best_match_i is 0 while no
\* window has a ratio above 0.
BestChunk(search_lines, content_lines, i, best_i, best_matches) ==
  IF i > Len(content_lines) - Len(search_lines) + 1
  THEN <<best_i, best_matches>>
  ELSE LET chunk == SubSeq(content_lines, i, i + Len(search_lines) - 1)
           matches == ratio(search_lines, chunk)[1]
       IN IF matches > best_matches
          THEN BestChunk(search_lines, content_lines, i + 1, i, matches)
          ELSE BestChunk(search_lines, content_lines, i + 1, best_i, best_matches)

Max(a, b) == IF a >= b THEN a ELSE b

Min(a, b) == IF a <= b THEN a ELSE b

\* Mutant of find_similar_lines: the best window is always returned with its
\* context, also when its first and last lines are those of the search block.
find_similar_lines_always_context(search, content) ==
  LET search_lines == SplitLines(search)
      content_lines == SplitLines(content)
      n == Len(search_lines)
      best == BestChunk(search_lines, content_lines, 1, 0, 0)
      best_match_i == best[1]
  IN IF best[2] * ThresholdDen < ThresholdNum * 2 * n THEN <<>>
     ELSE JoinLines(SubSeq(content_lines,
                           Max(1, best_match_i - ContextLines),
                           Min(Len(content_lines),
                               best_match_i - 1 + n + ContextLines)))

\* find_similar_lines(search, content) for a search block of one line or
\* more: the hint, "" when there is none.
find_similar_lines(search, content) ==
  LET search_lines == SplitLines(search)
      content_lines == SplitLines(content)
      n == Len(search_lines)
      best == BestChunk(search_lines, content_lines, 1, 0, 0)
      best_match_i == best[1]
      best_match == SubSeq(content_lines, best_match_i, best_match_i + n - 1)
  IN IF best[2] * ThresholdDen < ThresholdNum * 2 * n THEN <<>>
     ELSE IF best_match[1] = search_lines[1] /\ best_match[n] = search_lines[n]
     THEN JoinLines(best_match)
     ELSE JoinLines(SubSeq(content_lines,
                           Max(1, best_match_i - ContextLines),
                           Min(Len(content_lines),
                               best_match_i - 1 + n + ContextLines)))

(***************************************************************************)
(* State                                                                   *)
(***************************************************************************)

\* The content of a path that does not exist.
NoFile == <<"NoFile">>

\* The absolute paths of the files under the root.
AbsPaths == { "/r/a.py", "/r/b.py" }

\* The path the edit-engine specification edits.
EditPath == "/r/a.py"

VARIABLES
  files,       \* absolute path -> its text, or NoFile
  mtimes,      \* absolute path -> modification time of the existing file
  now,         \* the file system's clock: the mtime a write stamps
  TAGS_CACHE,  \* FileGroup.TAGS_CACHE: cache key -> entry
  files_for_modification,  \* FileGroup.files_for_modification
  edited_files,            \* FileGroup.edited_files
  cache_graphs,  \* RepoMap(cache_graphs=...): FALSE makes tag_graphs None
  tag_graphs,    \* RepoMap.tag_graphs: the dict's items in insertion order
  graph_count,   \* how many TagGraph objects have been constructed
  max_map_tokens,       \* RepoMap.max_map_tokens
  repo_content_prefix,  \* RepoMap.repo_content_prefix, as its tokens
  ranked_tags,  \* what get_ranked_tags yields for the repository: entry k is
                \* the token count of the rendering of its top k tags
  code_map,    \* RepoMap.code_renderer.code_map: (file, code) pairs
  tree_cache,  \* RepoMap.code_renderer.tree_cache: (key, rendering) pairs
  requested_tags,         \* InspectEntityTool.requested_tags, oldest first
  block_identical_calls,  \* the maxlen of requested_tags
  iteration,       \* ReturnToUserTool._iteration
  max_iterations,  \* ReturnToUserTool.max_iterations
  last         \* what the last completed operation was given and returned

fsVars == <<files, mtimes, now>>

groupVars == <<files_for_modification, edited_files>>

graphVars == <<cache_graphs, tag_graphs, graph_count>>

renderVars == <<code_map, tree_cache>>

mapVars == <<max_map_tokens, repo_content_prefix, ranked_tags, renderVars>>

toolVars ==
  <<requested_tags, block_identical_calls, iteration, max_iterations>>

vars == <<fsVars, TAGS_CACHE, groupVars, graphVars, mapVars, toolVars, last>>

\* The latest value of the file system's clock.
MaxTime == 1

(***************************************************************************)
(* FileGroup.cached_function_call                                          *)
(***************************************************************************)

\* The name of the function RepoMap.tags_from_filename passes.
FunctionName == "get_tags_raw_function"

\* The key arguments: None (the default), the empty string and a name.
NoKey == "<None>"

Keys == { NoKey, "", "k" }

\* key or function.__name__
KeyName(key) == IF key \in { NoKey, "" } THEN FunctionName ELSE key

\* fname + "::" + (key or function.__name__)
CacheKey(fname, key) == <<fname, KeyName(key)>>

CacheKeys == { CacheKey(p, k) : p \in AbsPaths, k \in Keys }

\* A key the cache does not hold.
NoEntry == [present |-> FALSE]

\* The empty list cached_function_call returns when the mtime is unavailable.
EmptyList == <<>>

\* function(fname): what the inner function computes from the file's text.
FunctionResult(fname) == <<"data", files[fname]>>

\* get_mtime: <<mtime>>, or <<>> for Python's None when the file is missing.
get_mtime(fname) == IF files[fname] = NoFile THEN <<>> ELSE <<mtimes[fname]>>

\* cache_key in TAGS_CACHE and TAGS_CACHE[cache_key]["mtime"] == file_mtime
CacheHit(cache, cache_key, file_mtime) ==
  cache[cache_key].present /\ cache[cache_key].mtime = file_mtime

\* Mutant of cached_function_call_on: a hit whenever the key is present,
\* whatever mtime was stored.
cached_function_call_any_mtime(cache, fname, key) ==
  LET file_mtime == get_mtime(fname)
      cache_key == CacheKey(fname, key)
  IN IF file_mtime = <<>>
     THEN [result |-> EmptyList, invoked |-> FALSE, cache |-> cache]
     ELSE IF cache[cache_key].present
     THEN [result |-> cache[cache_key].data, invoked |-> FALSE, cache |-> cache]
     ELSE [result |-> FunctionResult(fname), invoked |-> TRUE,
           cache |-> [cache EXCEPT ![cache_key] =
                        [present |-> TRUE, mtime |-> file_mtime[1],
                         data |-> FunctionResult(fname)]]]

\* Mutant of cached_function_call_on: the empty result of an unreadable mtime
\* is stored under the key.
cached_function_call_stores_empty(cache, fname, key) ==
  LET file_mtime == get_mtime(fname)
      cache_key == CacheKey(fname, key)
  IN IF file_mtime = <<>>
     THEN [result |-> EmptyList, invoked |-> FALSE,
           cache |-> [cache EXCEPT ![cache_key] =
                        [present |-> TRUE, mtime |-> 0, data |-> EmptyList]]]
     ELSE IF CacheHit(cache, cache_key, file_mtime[1])
     THEN [result |-> cache[cache_key].data, invoked |-> FALSE, cache |-> cache]
     ELSE [result |-> FunctionResult(fname), invoked |-> TRUE,
           cache |-> [cache EXCEPT ![cache_key] =
                        [present |-> TRUE, mtime |-> file_mtime[1],
                         data |-> FunctionResult(fname)]]]

\* cached_function_call(fname, function, key) against the cache given: what it
\* returns, whether it invoked the function, and the cache afterwards.
cached_function_call_on(cache, fname, key) ==
  LET file_mtime == get_mtime(fname)
      cache_key == CacheKey(fname, key)
  IN IF file_mtime = <<>>
     THEN [result |-> EmptyList, invoked |-> FALSE, cache |-> cache]
     ELSE IF CacheHit(cache, cache_key, file_mtime[1])
     THEN [result |-> cache[cache_key].data, invoked |-> FALSE, cache |-> cache]
     ELSE [result |-> FunctionResult(fname), invoked |-> TRUE,
           cache |-> [cache EXCEPT ![cache_key] =
                        [present |-> TRUE, mtime |-> file_mtime[1],
                         data |-> FunctionResult(fname)]]]

\* FileGroup.cached_function_call as one step.
cached_function_call(fname, key) ==
  \E out \in { cached_function_call_on(TAGS_CACHE, fname, key) } :
     /\ TAGS_CACHE' = out.cache
     /\ last' = [op |-> "cached_function_call", path |-> fname, key |-> key,
                 invoked |-> out.invoked, result |-> out.result]
     /\ UNCHANGED <<fsVars, groupVars, graphVars, mapVars, toolVars>>

(***************************************************************************)
(* FileGroup.edit_file                                                     *)
(***************************************************************************)

\* Mutant of edit_file_outcome: when no strategy applies, the prepared content
\* is written back to the file.
edit_file_outcome_rewrites(content, search, replace) ==
  IF content = NoFile /\ NonBlank(search)
  THEN [applied |-> FALSE, raised |-> TRUE, writes |-> 0, text |-> NoFile,
        strategy |-> "0", hint |-> None]
  ELSE LET file_content == IF content = NoFile THEN <<>> ELSE content
           traced == replace_part_traced(file_content, search, replace)
           new_content == traced.result
       IN IF Truthy(new_content) /\ new_content /= file_content
          THEN [applied |-> TRUE, raised |-> FALSE, writes |-> 1,
                text |-> new_content, strategy |-> traced.strategy,
                hint |-> None]
          ELSE [applied |-> FALSE, raised |-> FALSE, writes |-> 1,
                text |-> prepare_content(file_content),
                strategy |-> traced.strategy,
                hint |-> find_similar_lines(search, file_content)]

\* FileGroup.edit_file on a path whose text is content (NoFile when the path
\* does not exist): what it returns (applied and the close-match hint), how
\* many write_text calls it makes and the text of the path afterwards.
edit_file_outcome(content, search, replace) ==
  IF content = NoFile /\ NonBlank(search)
  THEN \* read_text of the missing path raises FileNotFoundError
       [applied |-> FALSE, raised |-> TRUE, writes |-> 0, text |-> NoFile,
        strategy |-> "0", hint |-> None]
  ELSE LET file_content == IF content = NoFile THEN <<>> ELSE content
           traced == replace_part_traced(file_content, search, replace)
           new_content == traced.result
       IN IF Truthy(new_content) /\ new_content /= file_content
          THEN [applied |-> TRUE, raised |-> FALSE, writes |-> 1,
                text |-> new_content, strategy |-> traced.strategy,
                hint |-> None]
          ELSE [applied |-> FALSE, raised |-> FALSE, writes |-> 0,
                text |-> file_content, strategy |-> traced.strategy,
                hint |-> find_similar_lines(search, file_content)]

\* The mtimes after edit_file: touch and write_text stamp the clock's time.
MtimesAfterEdit(abs_path, out) ==
  IF out.writes > 0 \/ (files[abs_path] = NoFile /\ out.text /= NoFile)
  THEN [mtimes EXCEPT ![abs_path] = now]
  ELSE mtimes

\* FileGroup.edit_file(file_path, search, replace) as one step.
edit_file(abs_path, search, replace) ==
  \E out \in { edit_file_outcome(files[abs_path], search, replace) } :
     /\ files' = [files EXCEPT ![abs_path] = out.text]
     /\ mtimes' = MtimesAfterEdit(abs_path, out)
     /\ last' = [op |-> "edit_file", path |-> abs_path,
                 search |-> search, replace |-> replace,
                 before |-> files[abs_path],
                 applied |-> out.applied, raised |-> out.raised,
                 writes |-> out.writes, strategy |-> out.strategy,
                 hint |-> out.hint]
     /\ UNCHANGED <<now, TAGS_CACHE, groupVars, graphVars, mapVars, toolVars>>

(***************************************************************************)
(* The edit-engine specification: one edit_file call on one file           *)
(***************************************************************************)

NoOp == [op |-> "init"]

\* An empty tags cache and a clock at 0.
CacheEmpty ==
  /\ mtimes = [p \in AbsPaths |-> 0]
  /\ now = 0
  /\ TAGS_CACHE = [k \in CacheKeys |-> NoEntry]

\* The map_tokens default of RepoMap.
DefaultMapTokens == 1024

\* block_identical_calls=2, the default of InspectEntityTool.
DefaultBlockIdenticalCalls == 2

\* A FileGroup just constructed.
GroupNew ==
  /\ files_for_modification = {}
  /\ edited_files = {}

\* The tools as the specifications that do not call them hold them:
\* InspectEntityTool with its default window, ReturnToUserTool allowing one
\* iteration.
ToolsNew ==
  /\ requested_tags = <<>>
  /\ block_identical_calls = DefaultBlockIdenticalCalls
  /\ iteration = 0
  /\ max_iterations = 1

\* RenderCode(): nothing rendered, no code known.
RenderCodeNew ==
  /\ code_map = {}
  /\ tree_cache = {}

\* A RepoMap constructed with the defaults: no graph memo, no prefix.
RepoMapDefault ==
  /\ cache_graphs = FALSE
  /\ tag_graphs = <<>>
  /\ graph_count = 0
  /\ max_map_tokens = DefaultMapTokens
  /\ repo_content_prefix = <<>>
  /\ ranked_tags = <<>>
  /\ RenderCodeNew

InitEdit ==
  /\ \E f \in EditFiles \cup {NoFile} :
       files = [p \in AbsPaths |-> IF p = EditPath THEN f ELSE NoFile]
  /\ CacheEmpty
  /\ GroupNew
  /\ RepoMapDefault
  /\ ToolsNew
  /\ last = NoOp

EditFileStep ==
  /\ last.op = "init"
  /\ \E s \in SearchBlocks, r \in ReplaceBlocks : edit_file(EditPath, s, r)

NextEdit == EditFileStep

SpecEdit == InitEdit /\ [][NextEdit]_vars

(***************************************************************************)
(* The cache specification: cached_function_call while files change        *)
(***************************************************************************)

\* The texts files take in the cache specification.
CacheTexts == { Line(<<"a">>), Line(<<"b">>) }

\* The file system's clock advances.
Tick ==
  /\ now < MaxTime
  /\ now' = now + 1
  /\ last' = [op |-> "tick"]
  /\ UNCHANGED <<files, mtimes, TAGS_CACHE, groupVars, graphVars,
                 mapVars, toolVars>>

\* Something outside the program writes a file: new text, mtime of the clock.
WriteFile(p, text) ==
  /\ files[p] /= text
  /\ files' = [files EXCEPT ![p] = text]
  /\ mtimes' = [mtimes EXCEPT ![p] = now]
  /\ last' = [op |-> "write", path |-> p]
  /\ UNCHANGED <<now, TAGS_CACHE, groupVars, graphVars, mapVars, toolVars>>

\* Something outside the program deletes a file.
DeleteFile(p) ==
  /\ files[p] /= NoFile
  /\ files' = [files EXCEPT ![p] = NoFile]
  /\ mtimes' = [mtimes EXCEPT ![p] = 0]
  /\ last' = [op |-> "delete", path |-> p]
  /\ UNCHANGED <<now, TAGS_CACHE, groupVars, graphVars, mapVars, toolVars>>

InitCache ==
  /\ files \in [AbsPaths -> CacheTexts \cup {NoFile}]
  /\ CacheEmpty
  /\ GroupNew
  /\ RepoMapDefault
  /\ ToolsNew
  /\ last = NoOp

NextCache ==
  \/ Tick
  \/ \E p \in AbsPaths, t \in CacheTexts : WriteFile(p, t)
  \/ \E p \in AbsPaths : DeleteFile(p)
  \/ \E p \in AbsPaths, k \in Keys : cached_function_call(p, k)

SpecCache == InitCache /\ [][NextCache]_vars

(***************************************************************************)
(* RepoMap.get_tag_graph and FileEditTool.edit_file_inner                  *)
(***************************************************************************)

\* How many TagGraph objects a behaviour constructs at most.
MaxGraphs == 2

\* The root of the file group.
Root == "/r"

\* Repository-relative spellings of the paths.
RelPaths == { "a.py", "b.py" }

\* abs_root_path: Path(root) / path, resolved; an absolute path stays as is.
abs_root_path(path) == IF path \in RelPaths THEN Root \o "/" \o path ELSE path

Range(seq) == { seq[i] : i \in DOMAIN seq }

\* sorted(...) of a set of the absolute paths.
Sorted(set) ==
  SelectSeq(<<"/r/a.py", "/r/b.py">>, LAMBDA p : p \in set)

\* get_all_filenames: the sorted absolute paths of the files that exist.
get_all_filenames == Sorted({ p \in AbsPaths : files[p] /= NoFile })

\* validate_fnames: the names that are files, in the order given.
validate_fnames(fnames) == SelectSeq(fnames, LAMBDA p : files[p] /= NoFile)

\* The index of the first memoized graph whose files cover clean_fnames,
\* or 0 when there is none (or no memo is kept).
MemoIndex(memo, clean_fnames) ==
  LET covering == { i \in DOMAIN memo :
                      Range(clean_fnames) \ Range(memo[i].files) = {} }
  IN IF covering = {} THEN 0
     ELSE CHOOSE i \in covering : \A j \in covering : i <= j

\* The loop over clean_fnames in get_tag_graph: tags_from_filename on each
\* name in turn, through cached_function_call.
RECURSIVE TagsFromFilenames(_, _, _)
TagsFromFilenames(cache, fnames, codes) ==
  IF fnames = <<>> THEN [cache |-> cache, code_map |-> codes]
  ELSE LET out == cached_function_call_on(cache, Head(fnames), NoKey)
       IN TagsFromFilenames(out.cache, Tail(fnames),
                            codes \cup { <<Head(fnames), out.result[2]>> })

\* tag_graphs[key] = graph on the insertion-ordered dict.
DictSet(memo, key, graph) ==
  IF \E i \in DOMAIN memo : memo[i].files = key
  THEN [i \in DOMAIN memo |->
          IF memo[i].files = key THEN [files |-> key, graph |-> graph]
          ELSE memo[i]]
  ELSE Append(memo, [files |-> key, graph |-> graph])

\* get_tag_graph(abs_fnames): the graph returned, whether it was constructed,
\* and the tags cache and the memo afterwards.
get_tag_graph_on(abs_fnames) ==
  LET clean_fnames ==
        validate_fnames(IF abs_fnames = <<>> THEN get_all_filenames
                        ELSE abs_fnames)
      hit == IF cache_graphs THEN MemoIndex(tag_graphs, clean_fnames) ELSE 0
  IN IF hit > 0
     THEN [clean_fnames |-> clean_fnames, graph |-> tag_graphs[hit].graph,
           built |-> FALSE, cache |-> TAGS_CACHE, memo |-> tag_graphs]
     ELSE LET read == TagsFromFilenames(TAGS_CACHE, clean_fnames, {})
              graph == [id |-> graph_count + 1, code_map |-> read.code_map]
          IN [clean_fnames |-> clean_fnames, graph |-> graph, built |-> TRUE,
              cache |-> read.cache,
              memo |-> IF cache_graphs
                       THEN DictSet(tag_graphs, clean_fnames, graph)
                       ELSE tag_graphs]

\* RepoMap.get_tag_graph as one step.
get_tag_graph(abs_fnames) ==
  \E out \in { get_tag_graph_on(abs_fnames) } :
     /\ out.built => graph_count < MaxGraphs
     /\ TAGS_CACHE' = out.cache
     /\ tag_graphs' = out.memo
     /\ graph_count' = IF out.built THEN graph_count + 1 ELSE graph_count
     /\ last' = [op |-> "get_tag_graph", fnames |-> out.clean_fnames,
                 graph |-> out.graph, built |-> out.built]
     /\ UNCHANGED <<fsVars, groupVars, cache_graphs, mapVars, toolVars>>

\* invalidate_tag_graphs(file_path): nothing when tag_graphs is None or empty,
\* otherwise every entry whose key tuple holds file_path is popped.
invalidate_tag_graphs(memo, file_path) ==
  IF ~cache_graphs \/ memo = <<>> THEN memo
  ELSE SelectSeq(memo, LAMBDA e : file_path \notin Range(e.files))

\* search and replace as edit_file_inner passes them on.
EndWithNewline(text) ==
  IF text = <<>> \/ text[Len(text)] /= NL THEN text \o <<NL>> ELSE text

\* prepare_file_for_edit: whether it raised, and the modifiable files and the
\* text of the path afterwards.
prepare_file_for_edit(file_path, confirm_add, confirm_create) ==
  LET abs_path == abs_root_path(file_path)
      listed == abs_path \in files_for_modification
  IN IF ~listed /\ ~confirm_add
     THEN [raised |-> TRUE, modifiable |-> files_for_modification,
           text |-> files[abs_path], touched |-> FALSE]
     ELSE IF files[abs_path] = NoFile /\ ~confirm_create
     THEN [raised |-> TRUE,
           modifiable |-> files_for_modification \cup {abs_path},
           text |-> files[abs_path], touched |-> FALSE]
     ELSE [raised |-> FALSE,
           modifiable |-> files_for_modification \cup {abs_path},
           text |-> IF files[abs_path] = NoFile THEN <<>> ELSE files[abs_path],
           touched |-> files[abs_path] = NoFile]

\* edit_file_inner(file_path, search, replace) with the user's answers to the
\* two confirmations: the state it leaves and whether it returned no error.
edit_file_inner_on(file_path, search, replace, confirm_add, confirm_create) ==
  LET abs_path == abs_root_path(file_path)
      prepared == prepare_file_for_edit(file_path, confirm_add, confirm_create)
      out == edit_file_outcome(prepared.text, EndWithNewline(search),
                               EndWithNewline(replace))
  IN IF prepared.raised
     THEN [ok |-> FALSE, text |-> prepared.text, stamped |-> FALSE,
           modifiable |-> prepared.modifiable, edited |-> edited_files,
           memo |-> tag_graphs]
     ELSE IF ~out.applied
     THEN [ok |-> FALSE, text |-> out.text, stamped |-> prepared.touched,
           modifiable |-> prepared.modifiable, edited |-> edited_files,
           memo |-> tag_graphs]
     ELSE [ok |-> TRUE, text |-> out.text, stamped |-> TRUE,
           modifiable |-> prepared.modifiable,
           edited |-> edited_files \cup {file_path},
           memo |-> invalidate_tag_graphs(tag_graphs, file_path)]

\* FileEditTool.edit_file_inner as one step (no linter configured).
edit_file_inner(file_path, search, replace, confirm_add, confirm_create) ==
  \E out \in { edit_file_inner_on(file_path, search, replace,
                                  confirm_add, confirm_create) } :
     /\ files' = [files EXCEPT ![abs_root_path(file_path)] = out.text]
     /\ mtimes' = IF out.stamped
                  THEN [mtimes EXCEPT ![abs_root_path(file_path)] = now]
                  ELSE mtimes
     /\ files_for_modification' = out.modifiable
     /\ edited_files' = out.edited
     /\ tag_graphs' = out.memo
     /\ last' = [op |-> "edit_file_inner", file_path |-> file_path,
                 search |-> search,
                 before |-> files[abs_root_path(file_path)], ok |-> out.ok]
     /\ UNCHANGED <<now, TAGS_CACHE, cache_graphs, graph_count,
                    mapVars, toolVars>>

(***************************************************************************)
(* The graph specification: graphs requested while the tool edits a.py     *)
(***************************************************************************)

\* The spellings under which the tool is given the edited file.
ToolPaths == { "a.py", "/r/a.py" }

\* The file lists get_tag_graph is called with; <<>> asks for every file.
FnameLists == { <<>>, <<"/r/a.py">>, <<"/r/b.py">>, <<"/r/a.py", "/r/b.py">> }

GraphSearches == { <<"a">>, Line(<<"b">>) }

GraphReplaces == { <<"b">>, Line(<<"a">>) }

InitGraph ==
  /\ files \in [AbsPaths -> { Line(<<"a">>), NoFile }]
  /\ CacheEmpty
  /\ GroupNew
  /\ cache_graphs \in BOOLEAN
  /\ tag_graphs = <<>>
  /\ graph_count = 0
  /\ max_map_tokens = DefaultMapTokens
  /\ repo_content_prefix = <<>>
  /\ ranked_tags = <<>>
  /\ RenderCodeNew
  /\ ToolsNew
  /\ last = NoOp

\* The user's answers to "Add ... to the list of modifiable files?" and to
\* "Allow creation of new file ...?"; UserInterface(yes=True) gives the first.
Confirmations == { <<TRUE, TRUE>>, <<FALSE, TRUE>>, <<TRUE, FALSE>> }

NextGraph ==
  \/ Tick
  \/ \E fnames \in FnameLists : get_tag_graph(fnames)
  \/ \E p \in ToolPaths, s \in GraphSearches, r \in GraphReplaces,
        confirm \in Confirmations :
       edit_file_inner(p, s, r, confirm[1], confirm[2])

SpecGraph == InitGraph /\ [][NextGraph]_vars

(***************************************************************************)
(* RepoMap.get_ranked_tags: the graph that is ranked                       *)
(***************************************************************************)

\* The graph get_ranked_tags obtains for args: the validated sorted union of
\* chat_fnames and other_fnames, and get_tag_graph's outcome on it. A graph
\* is given by the files whose code and definitions it holds.
get_ranked_tags_on(chat_fnames, other_fnames) ==
  LET fnames == Sorted(Range(chat_fnames) \cup Range(other_fnames))
      cleaned == validate_fnames(fnames)
  IN [cleaned |-> cleaned, out |-> get_tag_graph_on(cleaned)]

\* RepoMap.get_ranked_tags as one step, up to the ranking of the graph's tags.
get_ranked_tags(chat_fnames, other_fnames) ==
  \E got \in { get_ranked_tags_on(chat_fnames, other_fnames) } :
     /\ got.out.built => graph_count < MaxGraphs
     /\ TAGS_CACHE' = got.out.cache
     /\ tag_graphs' = got.out.memo
     /\ graph_count' = IF got.out.built THEN graph_count + 1 ELSE graph_count
     /\ code_map' = got.out.graph.code_map
     /\ last' = [op |-> "get_ranked_tags", chat_fnames |-> chat_fnames,
                 other_fnames |-> other_fnames, cleaned |-> got.cleaned,
                 graph |-> got.out.graph, built |-> got.out.built]
     /\ UNCHANGED <<fsVars, groupVars, cache_graphs, max_map_tokens,
                    repo_content_prefix, ranked_tags, tree_cache, toolVars>>

NextRanked ==
  \E chat_fnames \in FnameLists, other_fnames \in FnameLists :
     get_ranked_tags(chat_fnames, other_fnames)

SpecRanked == InitGraph /\ [][NextRanked]_vars

(***************************************************************************)
(* RepoMap.find_best_tag_tree and RepoMap.get_repo_map                     *)
(***************************************************************************)

\* The longest ranked-tag list the map specification enumerates.
MaxTags == 3

\* max_map_tokens // 25: the divisor of the starting guess.
StartingGuessDivisor == 25

\* code_renderer.to_tree(ranked_tags[:k]): "" for no tags, else the rendering
\* of the top k tags.
to_tree(k) == IF k = 0 THEN <<>> ELSE <<"tree", k>>

\* token_count(to_tree(ranked_tags[:k])): costs[k] is what the tokenizer
\* counts for the rendering of the top k tags, and "" has no tokens.
token_count(costs, k) == IF k = 0 THEN 0 ELSE costs[k]

\* Mutant of find_best_tag_tree_loop: the loop stops when the bounds meet.
RECURSIVE find_best_tag_tree_loop_early_exit(_, _, _, _, _, _, _)
find_best_tag_tree_loop_early_exit(costs, budget, lower_bound, upper_bound, middle, best_tree, best_tree_tokens) ==
  IF lower_bound >= upper_bound THEN best_tree
  ELSE LET num_tokens == token_count(costs, middle)
           better == budget > num_tokens /\ num_tokens > best_tree_tokens
           lower == IF num_tokens < budget THEN middle + 1 ELSE lower_bound
           upper == IF num_tokens < budget THEN upper_bound ELSE middle - 1
       IN find_best_tag_tree_loop_early_exit(
            costs, budget, lower, upper, (lower + upper) \div 2,
            IF better THEN to_tree(middle) ELSE best_tree,
            IF better THEN num_tokens ELSE best_tree_tokens)

\* The while loop of find_best_tag_tree from the state it is entered in.
RECURSIVE find_best_tag_tree_loop(_, _, _, _, _, _, _)
find_best_tag_tree_loop(costs, budget, lower_bound, upper_bound, middle, best_tree, best_tree_tokens) ==
  IF lower_bound > upper_bound THEN best_tree
  ELSE LET num_tokens == token_count(costs, middle)
           better == budget > num_tokens /\ num_tokens > best_tree_tokens
           lower == IF num_tokens < budget THEN middle + 1 ELSE lower_bound
           upper == IF num_tokens < budget THEN upper_bound ELSE middle - 1
       IN find_best_tag_tree_loop(
            costs, budget, lower, upper, (lower + upper) \div 2,
            IF better THEN to_tree(middle) ELSE best_tree,
            IF better THEN num_tokens ELSE best_tree_tokens)

\* find_best_tag_tree(ranked_tags) under the budget max_map_tokens, the
\* ranked tags given by the token counts of their renderings.
find_best_tag_tree(costs, budget) ==
  find_best_tag_tree_loop(costs, budget, 0, Len(costs),
                          Min(budget \div StartingGuessDivisor, Len(costs)),
                          None, 0)

\* What get_repo_map returns for a listing: the prefix and the listing.
repo_content(prefix, listing) == <<prefix, listing>>

\* Mutant of get_repo_map_with: the RecursionError handler leaves max_map_tokens
\* as it was.
get_repo_map_keeps_budget(budget, costs, other_fnames, add_prefix, recursion_error) ==
  IF budget <= 0 \/ ~other_fnames
  THEN [result |-> None, listing |-> None, budget |-> budget,
        ranked |-> FALSE]
  ELSE IF recursion_error
  THEN [result |-> None, listing |-> None, budget |-> budget,
        ranked |-> TRUE]
  ELSE LET files_listing == find_best_tag_tree(costs, budget)
       IN IF ~Truthy(files_listing)
          THEN [result |-> None, listing |-> files_listing,
                budget |-> budget, ranked |-> TRUE]
          ELSE [result |-> repo_content(
                             IF repo_content_prefix /= <<>> /\ add_prefix
                             THEN repo_content_prefix ELSE <<>>,
                             files_listing),
                listing |-> files_listing, budget |-> budget,
                ranked |-> TRUE]

\* Mutant of get_repo_map_with: an argument record without other_fnames is
\* ranked and rendered like any other.
get_repo_map_without_guard(budget, costs, other_fnames, add_prefix, recursion_error) ==
  IF budget <= 0
  THEN [result |-> None, listing |-> None, budget |-> budget,
        ranked |-> FALSE]
  ELSE IF recursion_error
  THEN [result |-> None, listing |-> None, budget |-> 0, ranked |-> TRUE]
  ELSE LET files_listing == find_best_tag_tree(costs, budget)
       IN IF ~Truthy(files_listing)
          THEN [result |-> None, listing |-> files_listing,
                budget |-> budget, ranked |-> TRUE]
          ELSE [result |-> repo_content(
                             IF repo_content_prefix /= <<>> /\ add_prefix
                             THEN repo_content_prefix ELSE <<>>,
                             files_listing),
                listing |-> files_listing, budget |-> budget,
                ranked |-> TRUE]

\* get_repo_map(args) when max_map_tokens is budget and get_ranked_tags(args)
\* yields costs: what it returns, the listing find_best_tag_tree gave it,
\* max_map_tokens afterwards and whether get_ranked_tags was reached.
\* other_fnames tells whether args.other_fnames is non-empty, recursion_error
\* whether ranking the tags raises RecursionError.
get_repo_map_with(budget, costs, other_fnames, add_prefix, recursion_error) ==
  IF budget <= 0 \/ ~other_fnames
  THEN [result |-> None, listing |-> None, budget |-> budget,
        ranked |-> FALSE]
  ELSE IF recursion_error
  THEN [result |-> None, listing |-> None, budget |-> 0, ranked |-> TRUE]
  ELSE LET files_listing == find_best_tag_tree(costs, budget)
       IN IF ~Truthy(files_listing)
          THEN [result |-> None, listing |-> files_listing,
                budget |-> budget, ranked |-> TRUE]
          ELSE [result |-> repo_content(
                             IF repo_content_prefix /= <<>> /\ add_prefix
                             THEN repo_content_prefix ELSE <<>>,
                             files_listing),
                listing |-> files_listing, budget |-> budget,
                ranked |-> TRUE]

\* get_repo_map(args) on this RepoMap, whose ranked tags are ranked_tags.
get_repo_map_on(other_fnames, add_prefix, recursion_error) ==
  get_repo_map_with(max_map_tokens, ranked_tags, other_fnames, add_prefix,
                    recursion_error)

\* The tokenizer's count for what get_repo_map returned: the tokens of the
\* prefix and those of the listing.
ResultTokens(costs, result) ==
  IF result = None THEN 0 ELSE Len(result[1]) + token_count(costs, result[2][2])

\* RepoMap.get_repo_map as one step.
get_repo_map(other_fnames, add_prefix, recursion_error) ==
  \E out \in { get_repo_map_on(other_fnames, add_prefix, recursion_error) } :
     /\ max_map_tokens' = out.budget
     /\ last' = [op |-> "get_repo_map", budget |-> max_map_tokens,
                 other_fnames |-> other_fnames, add_prefix |-> add_prefix,
                 recursion_error |-> recursion_error,
                 listing |-> out.listing, result |-> out.result,
                 tokens |-> ResultTokens(ranked_tags, out.result),
                 ranked |-> out.ranked,
                 overflowed |-> \/ out.ranked /\ recursion_error
                                \/ last.op = "get_repo_map" /\ last.overflowed]
     /\ UNCHANGED <<fsVars, TAGS_CACHE, groupVars, graphVars,
                    repo_content_prefix, ranked_tags, renderVars, toolVars>>

(***************************************************************************)
(* The map specification: get_repo_map under budgets and tokenizers        *)
(***************************************************************************)

\* The budgets RepoMap is constructed with.
Budgets == { 0, 1, 2, 26, 51, 76, DefaultMapTokens }

\* The token counts a rendering can have.
TokenValues == { 1, 25, 26, 50, 75, 1100 }

\* 43 ranked tags: the top 42 render to 900 tokens, all 43 to 1100.
ExampleCosts == [k \in 1..43 |-> IF k <= 42 THEN 858 + k ELSE 1100]

\* The ranked-tag lists, each given by the token counts of its renderings.
CostLists ==
  UNION { [1..n -> TokenValues] : n \in 0..MaxTags } \cup { ExampleCosts }

\* The configured prefixes: none, one token, two tokens.
Prefixes == { <<>>, <<"p">>, <<"p", "p">> }

InitMap ==
  /\ files = [p \in AbsPaths |-> NoFile]
  /\ CacheEmpty
  /\ GroupNew
  /\ cache_graphs = FALSE
  /\ tag_graphs = <<>>
  /\ graph_count = 0
  /\ max_map_tokens \in Budgets
  /\ repo_content_prefix \in Prefixes
  /\ ranked_tags \in CostLists
  /\ RenderCodeNew
  /\ ToolsNew
  /\ last = NoOp

NextMap ==
  \E other_fnames \in BOOLEAN, add_prefix \in BOOLEAN,
     recursion_error \in BOOLEAN :
    get_repo_map(other_fnames, add_prefix, recursion_error)

SpecMap == InitMap /\ [][NextMap]_vars

(***************************************************************************)
(* RepoMap.repo_map_from_message and its fallback chain                    *)
(***************************************************************************)

\* RepoMapArgs as far as the chain sets it: the mentioned_* fields are
\* mentioned, the hints taken from the message.
RepoMapArgs(chat_fnames, other_fnames, mentioned, search_terms, add_prefix) ==
  [chat_fnames |-> chat_fnames, other_fnames |-> other_fnames,
   mentioned |-> mentioned, search_terms |-> search_terms,
   add_prefix |-> add_prefix]

\* One get_repo_map call of the chain: its arguments and what it returned.
Attempt(args, out) == [args |-> args, result |-> out.result]

\* Mutant of repo_map_from_message_on: the second attempt is made even when
\* the first one gave a map.
repo_map_from_message_always_falls_back(mentioned, search_terms, add_prefix, costs1, error1, costs2, error2, costs3) ==
  LET all_files == get_all_filenames
      added_files == files_for_modification
      other_files == Range(all_files) \ added_files
      args1 == RepoMapArgs(added_files, other_files, mentioned, search_terms,
                           add_prefix)
      out1 == get_repo_map_with(max_map_tokens, costs1, other_files /= {},
                                add_prefix, error1)
      args2 == RepoMapArgs({}, Range(all_files), mentioned, search_terms,
                           add_prefix)
      out2 == get_repo_map_with(out1.budget, costs2, all_files /= <<>>,
                                add_prefix, error2)
      args3 == RepoMapArgs({}, {}, {}, search_terms, add_prefix)
      out3 == get_repo_map_with(out2.budget, costs3, args3.other_fnames /= {},
                                add_prefix, FALSE)
  IN IF Truthy(out2.result)
     THEN [calls |-> <<Attempt(args1, out1), Attempt(args2, out2)>>,
           result |-> out2.result, budget |-> out2.budget]
     ELSE [calls |-> <<Attempt(args1, out1), Attempt(args2, out2),
                       Attempt(args3, out3)>>,
           result |-> out3.result, budget |-> out3.budget]

\* repo_map_from_message(message, mentioned_entities, add_prefix, llm): the
\* get_repo_map calls it makes, what it returns and max_map_tokens afterwards.
\* mentioned and search_terms are what the message yields; costs1, costs2
\* and costs3 are what get_ranked_tags yields for the first, the second and
\* the third argument record, error1 and error2 whether ranking the first
\* and the second raises RecursionError.
repo_map_from_message_on(mentioned, search_terms, add_prefix, costs1, error1, costs2, error2, costs3) ==
  LET all_files == get_all_filenames
      added_files == files_for_modification
      other_files == Range(all_files) \ added_files
      args1 == RepoMapArgs(added_files, other_files, mentioned, search_terms,
                           add_prefix)
      out1 == get_repo_map_with(max_map_tokens, costs1, other_files /= {},
                                add_prefix, error1)
      args2 == RepoMapArgs({}, Range(all_files), mentioned, search_terms,
                           add_prefix)
      out2 == get_repo_map_with(out1.budget, costs2, all_files /= <<>>,
                                add_prefix, error2)
      args3 == RepoMapArgs({}, {}, {}, search_terms, add_prefix)
      out3 == get_repo_map_with(out2.budget, costs3, args3.other_fnames /= {},
                                add_prefix, FALSE)
  IN IF Truthy(out1.result)
     THEN [calls |-> <<Attempt(args1, out1)>>,
           result |-> out1.result, budget |-> out1.budget]
     ELSE IF Truthy(out2.result)
     THEN [calls |-> <<Attempt(args1, out1), Attempt(args2, out2)>>,
           result |-> out2.result, budget |-> out2.budget]
     ELSE [calls |-> <<Attempt(args1, out1), Attempt(args2, out2),
                       Attempt(args3, out3)>>,
           result |-> out3.result, budget |-> out3.budget]

\* RepoMap.repo_map_from_message as one step.
repo_map_from_message(mentioned, search_terms, add_prefix, costs1, error1, costs2, error2, costs3) ==
  \E out \in { repo_map_from_message_on(mentioned, search_terms, add_prefix,
                                        costs1, error1, costs2, error2,
                                        costs3) } :
     /\ max_map_tokens' = out.budget
     /\ last' = [op |-> "repo_map_from_message", mentioned |-> mentioned,
                 search_terms |-> search_terms, add_prefix |-> add_prefix,
                 all_files |-> Range(get_all_filenames),
                 costs3 |-> costs3,
                 calls |-> out.calls, result |-> out.result]
     /\ UNCHANGED <<fsVars, TAGS_CACHE, groupVars, graphVars,
                    repo_content_prefix, ranked_tags, renderVars, toolVars>>

\* What a message mentions, and the search terms an LLM draws from it (none
\* without an LLM).
Mentions == { {}, {"a.py"} }

SearchTerms == { {}, {"t"} }

\* What get_ranked_tags yields for an argument record: no tag, one tag of 25
\* tokens, one tag of 1100 tokens.
MessageCosts == { <<>>, <<25>>, <<1100>> }

MessageBudgets == { 0, 26, DefaultMapTokens }

InitMessage ==
  /\ files \in [AbsPaths -> { Line(<<"a">>), NoFile }]
  /\ CacheEmpty
  /\ files_for_modification \in SUBSET AbsPaths
  /\ edited_files = {}
  /\ cache_graphs = FALSE
  /\ tag_graphs = <<>>
  /\ graph_count = 0
  /\ max_map_tokens \in MessageBudgets
  /\ repo_content_prefix \in { <<>>, <<"p">> }
  /\ ranked_tags = <<>>
  /\ RenderCodeNew
  /\ ToolsNew
  /\ last = NoOp

NextMessage ==
  \E mentioned \in Mentions, search_terms \in SearchTerms,
     add_prefix \in BOOLEAN, costs1 \in MessageCosts, error1 \in BOOLEAN,
     costs2 \in MessageCosts, error2 \in BOOLEAN,
     costs3 \in { <<>>, <<25>> } :
    repo_map_from_message(mentioned, search_terms, add_prefix,
                          costs1, error1, costs2, error2, costs3)

SpecMessage == InitMessage /\ [][NextMessage]_vars

(***************************************************************************)
(* rank_tags_new, the weight-and-diffuse ranking (codemap/rank.py)         *)
(***************************************************************************)

\* The def tags of the ranked graphs, named after their entities, and the
\* file of each.
Tags == { "A", "B" }

TagFile(tag) == IF tag = "A" THEN "/r/a.py" ELSE "/r/b.py"

\* Weights are counted in hundredths: 3.0, 1.0, the factors 0.2 and 0.5 of
\* the file weights, and diffusion_mult = 0.2 as a division by 5.
MentionedEntityWeight == 300

MentionedIdentWeight == 100

MentionedFnameFactor == 20

ChatFnameFactor == 50

DiffusionDivisor == 5

\* The most parallel edges from one tag to the other.
MaxParallel == 6

\* name.split(".")[-1] on the entity names used here.
LastComponent(name) == IF name = "m.A" THEN "A" ELSE name

\* Twice np.median of the counts fc[f], f in S (S not empty).
RECURSIVE Median2(_, _)
Median2(fc, S) ==
  IF Cardinality(S) = 1 THEN 2 * fc[CHOOSE f \in S : TRUE]
  ELSE LET lo == CHOOSE f \in S : \A g \in S : fc[f] <= fc[g]
           hi == CHOOSE f \in S \ {lo} : \A g \in S : fc[g] <= fc[f]
       IN IF Cardinality(S) = 2 THEN fc[lo] + fc[hi]
          ELSE Median2(fc, S \ {lo, hi})

\* weights_from_fnames(tag_graph, mentioned_fnames)[tag], times factor and in
\* hundredths: typical_count / fname_counts[tag.fname] for a def tag of a
\* named file, nothing for any other tag.
weights_from_fnames(nodes, mentioned_fnames, factor, tag) ==
  LET counted == { TagFile(x) : x \in
                     { y \in Range(nodes) : TagFile(y) \in mentioned_fnames } }
      fname_counts == [f \in counted |->
                         Cardinality({ x \in Range(nodes) : TagFile(x) = f })]
  IN IF TagFile(tag) \in counted
     THEN (factor * Median2(fname_counts, counted))
            \div (2 * fname_counts[TagFile(tag)])
     ELSE 0

\* The weight of a tag before diffusion.
HintWeight(nodes, args, tag) ==
  (IF /\ TagFile(tag) \in args.chat_fnames
      /\ tag \in { LastComponent(name) : name \in args.mentioned_entities }
   THEN MentionedEntityWeight
   ELSE IF tag \in args.mentioned_idents THEN MentionedIdentWeight
   ELSE 0)
  + weights_from_fnames(nodes, args.mentioned_fnames, MentionedFnameFactor, tag)
  + weights_from_fnames(nodes, args.chat_fnames, ChatFnameFactor, tag)

\* G1: the <<tag, weight>> pairs of the first k nodes before diffusion.
RECURSIVE HintWeights(_, _, _)
HintWeights(nodes, args, k) ==
  IF k = 0 THEN <<>>
  ELSE Append(HintWeights(nodes, args, k - 1),
              <<nodes[k], HintWeight(nodes, args, nodes[k])>>)

RECURSIVE Diffused(_, _, _, _)

\* Mutant of Diffused: parallel edges from t to t2 pass weight once.
Diffused_once_per_successor(edges, G1, t2, k) ==
  IF k = 0 THEN 0
  ELSE (IF edges[<<G1[k][1], t2>>] > 0 THEN 1 ELSE 0)
         * (G1[k][2] \div DiffusionDivisor)
         + Diffused(edges, G1, t2, k - 1)

\* What the first k nodes of G1 pass to t2: for every edge from t to t2,
\* weight[t] * diffusion_mult.
Diffused(edges, G1, t2, k) ==
  IF k = 0 THEN 0
  ELSE edges[<<G1[k][1], t2>>] * (G1[k][2] \div DiffusionDivisor)
         + Diffused(edges, G1, t2, k - 1)

\* node_list: <<tag, weight, rounding>> of the first k nodes after diffusion.
RECURSIVE node_list(_, _, _, _)
node_list(edges, G1, rounding, k) ==
  IF k = 0 THEN <<>>
  ELSE LET gained == Diffused(edges, G1, G1[k][1], Len(G1))
       IN Append(node_list(edges, G1, rounding, k - 1),
                 <<G1[k][1], G1[k][2] + gained,
                   IF gained > 0 THEN rounding[G1[k][1]] ELSE 0>>)

\* sorted(node_list, key=weight, reverse=True): the stable descending sort of
\* the entries, weights whose exact values tie compared by their rounding;
\* the tags in that order.
RECURSIVE SortedDescending(_)
SortedDescending(entries) ==
  IF entries = <<>> THEN <<>>
  ELSE LET Above(x, y) == \/ x[2] > y[2]
                          \/ x[2] = y[2] /\ x[3] > y[3]
           top == CHOOSE i \in DOMAIN entries :
                    /\ \A j \in DOMAIN entries : ~Above(entries[j], entries[i])
                    /\ \A j \in 1..(i - 1) : Above(entries[i], entries[j])
       IN <<entries[top][1]>>
            \o SortedDescending(SubSeq(entries, 1, top - 1)
                                 \o SubSeq(entries, top + 1, Len(entries)))

\* rank_tags_new(tag_graph, args) for a graph of def tags: nodes in the
\* graph's order, edges[u, v] the number of parallel edges from u to v.
\* search_terms is empty. A weight that gained from diffusion is a sum of
\* binary floating-point products, so it may come out just above or just
\* below its exact value: rounding[tag] orders weights whose exact values tie.
rank_tags_new(nodes, edges, args, rounding) ==
  SortedDescending(
    node_list(edges, HintWeights(nodes, args, Len(nodes)), rounding,
              Len(nodes)))

\* The multigraphs over A and B: up to MaxParallel edges each way between
\* them and at most one self-loop on each.
EdgeSets ==
  { e \in [Tags \X Tags -> 0..MaxParallel] :
      e[<<"A", "A">>] <= 1 /\ e[<<"B", "B">>] <= 1 }

NodeOrders == { <<"A", "B">>, <<"B", "A">> }

\* The hints of args: chat files, mentioned entities, identifiers and files.
RankArgs ==
  [chat_fnames : { {}, {"/r/a.py"}, {"/r/a.py", "/r/b.py"} },
   mentioned_entities : { {}, {"A"}, {"m.A"} },
   mentioned_idents : { {}, {"B"} },
   mentioned_fnames : { {}, {"/r/b.py"} }]

Roundings == [Tags -> {-1, 0, 1}]

\* One rank_tags_new call.
RankStep ==
  /\ last.op = "init"
  /\ \E nodes \in NodeOrders, edges \in EdgeSets, args \in RankArgs,
        rounding \in Roundings :
       \E G1 \in { HintWeights(nodes, args, Len(nodes)) } :
         last' = [op |-> "rank_tags_new", nodes |-> nodes, edges |-> edges,
                  args |-> args, G1 |-> G1,
                  node_list |-> node_list(edges, G1, rounding, Len(nodes)),
                  ranked |-> rank_tags_new(nodes, edges, args, rounding)]
  /\ UNCHANGED <<fsVars, TAGS_CACHE, groupVars, graphVars, mapVars, toolVars>>

InitRank ==
  /\ files = [p \in AbsPaths |-> Line(<<"a">>)]
  /\ CacheEmpty
  /\ GroupNew
  /\ RepoMapDefault
  /\ ToolsNew
  /\ last = NoOp

NextRank == RankStep

SpecRank == InitRank /\ [][NextRank]_vars

(***************************************************************************)
(* RenderCode.render_tree and its memo (codemap/render.py)                 *)
(***************************************************************************)

\* The most formatter runs a behaviour makes.
MaxFormats == 4

\* sorted(lois) of a list of line numbers.
RECURSIVE SortedLois(_)
SortedLois(lois) ==
  IF lois = <<>> THEN <<>>
  ELSE LET least == CHOOSE i \in DOMAIN lois :
                      /\ \A j \in DOMAIN lois : lois[i] <= lois[j]
                      /\ \A j \in 1..(i - 1) : lois[j] /= lois[i]
       IN <<lois[least]>>
            \o SortedLois(SubSeq(lois, 1, least - 1)
                           \o SubSeq(lois, least + 1, Len(lois)))

\* key = (rel_fname, tuple(sorted(lois)))
TreeKey(rel_fname, lois) == <<rel_fname, SortedLois(lois)>>

\* TreeContext(rel_fname, code, line_number=...) with the lines of interest
\* added, formatted: the rendering is determined by the file name, the
\* newline-terminated code, the flag and the set of lines.
Format(rel_fname, lois, line_number, code) ==
  <<"tree", rel_fname, NewlineTerminated(code), line_number, Range(lois)>>

CachedKeys(cache) == { entry[1] : entry \in cache }

CachedTree(cache, key) == (CHOOSE entry \in cache : entry[1] = key)[2]

\* Mutant of render_tree_on: the memo is written but never read.
render_tree_uncached(cache, rel_fname, lois, line_number, code) ==
  LET key == TreeKey(rel_fname, lois)
      res == Format(rel_fname, lois, line_number, code)
  IN [key |-> key, result |-> res, formatted |-> TRUE,
      cache |-> { entry \in cache : entry[1] /= key } \cup { <<key, res>> }]

\* render_tree(rel_fname, lois, line_number, code) against the memo given:
\* the key, what it returns, whether the formatter ran, the memo afterwards.
render_tree_on(cache, rel_fname, lois, line_number, code) ==
  LET key == TreeKey(rel_fname, lois)
      res == Format(rel_fname, lois, line_number, code)
  IN IF key \in CachedKeys(cache)
     THEN [key |-> key, result |-> CachedTree(cache, key),
           formatted |-> FALSE, cache |-> cache]
     ELSE [key |-> key, result |-> res, formatted |-> TRUE,
           cache |-> cache \cup { <<key, res>> }]

\* What the render_tree calls so far returned, as (key, string) pairs, and
\* the bag of the keys the formatter ran for, one copy per run.
Returned == IF last.op = "render_tree" THEN last.returned ELSE {}

Formats == IF last.op = "render_tree" THEN last.formats ELSE EmptyBag

\* RenderCode.render_tree as one step.
render_tree(rel_fname, lois, line_number, code) ==
  \E out \in { render_tree_on(tree_cache, rel_fname, lois, line_number, code) } :
     /\ out.formatted => BagCardinality(Formats) < MaxFormats
     /\ tree_cache' = out.cache
     /\ last' = [op |-> "render_tree", key |-> out.key, code |-> code,
                 line_number |-> line_number, result |-> out.result,
                 formatted |-> out.formatted,
                 returned |-> Returned \cup { <<out.key, out.result>> },
                 formats |-> IF out.formatted
                             THEN Formats (+) SetToBag({out.key})
                             ELSE Formats]
     /\ UNCHANGED <<fsVars, TAGS_CACHE, groupVars, graphVars, max_map_tokens,
                    repo_content_prefix, ranked_tags, code_map, toolVars>>

\* The lists of lines of interest, one of them unsorted.
LoisLists == { <<1>>, <<1, 2>>, <<2, 1>> }

\* The code handed in; one text lacks the final newline.
RenderCodes == { <<"a">>, Line(<<"b">>) }

InitRender ==
  /\ files = [p \in AbsPaths |-> Line(<<"a">>)]
  /\ CacheEmpty
  /\ GroupNew
  /\ RepoMapDefault
  /\ ToolsNew
  /\ last = NoOp

NextRender ==
  \E rel_fname \in RelPaths, lois \in LoisLists, line_number \in BOOLEAN,
     code \in RenderCodes :
    render_tree(rel_fname, lois, line_number, code)

SpecRender == InitRender /\ [][NextRender]_vars


(***************************************************************************)
(* InspectEntityTool.get_object_summary (tools/inspect_entity_tool.py)     *)
(***************************************************************************)

\* The longest window of recent requests a tool is constructed with.
MaxWindow == 2

RECURSIVE rstrip(_)
\* str.rstrip()
rstrip(s) ==
  IF s /= <<>> /\ s[Len(s)] \in Whitespace THEN rstrip(Take(s, Len(s) - 1))
  ELSE s

\* str.strip()
strip(s) == lstrip(rstrip(s))

\* x or None
OrNone(x) == IF Truthy(x) THEN x ELSE None

\* The (entity_name, file_name) pair get_object_summary works with.
NormalizedRequest(entity_name, file_name) ==
  <<IF OrNone(entity_name) = None THEN None
    ELSE Replace(strip(entity_name), <<"(", ")">>, <<>>, -1),
    OrNone(file_name)>>

\* deque(maxlen=n).append(x) on the deque holding window.
DequeAppend(window, x, n) ==
  LET all == Append(window, x)
  IN IF Len(all) <= n THEN all ELSE SubSeq(all, Len(all) - n + 1, Len(all))

InWindow(window, x) == \E i \in DOMAIN window : window[i] = x

\* Mutant of get_object_summary_on: a repeated request is put into the window
\* again.
get_object_summary_records_repeats(entity_name, file_name) ==
  LET request == NormalizedRequest(entity_name, file_name)
  IN IF request = <<None, None>>
     THEN [request |-> request, result |-> "supply", window |-> requested_tags,
           graph |-> FALSE]
     ELSE IF InWindow(requested_tags, request)
     THEN [request |-> request, result |-> "already",
           window |-> DequeAppend(requested_tags, request,
                                  block_identical_calls),
           graph |-> FALSE]
     ELSE [request |-> request, result |-> "answered",
           window |-> DequeAppend(requested_tags, request,
                                  block_identical_calls),
           graph |-> TRUE]

\* get_object_summary(entity_name, file_name): the normalized request, the
\* kind of its answer ("supply": name something; "already": requested
\* recently; "answered": whatever the graph gave), the window afterwards and
\* whether get_tag_graph was called.
get_object_summary_on(entity_name, file_name) ==
  LET request == NormalizedRequest(entity_name, file_name)
  IN IF request = <<None, None>>
     THEN [request |-> request, result |-> "supply", window |-> requested_tags,
           graph |-> FALSE]
     ELSE IF InWindow(requested_tags, request)
     THEN [request |-> request, result |-> "already",
           window |-> requested_tags, graph |-> FALSE]
     ELSE [request |-> request, result |-> "answered",
           window |-> DequeAppend(requested_tags, request,
                                  block_identical_calls),
           graph |-> TRUE]

\* InspectEntityTool.get_object_summary as one step; what it reads from the
\* graph changes no state.
get_object_summary(entity_name, file_name) ==
  \E out \in { get_object_summary_on(entity_name, file_name) },
     got \in { get_tag_graph_on(<<>>) } :
     /\ requested_tags' = out.window
     /\ IF out.graph
        THEN /\ got.built => graph_count < MaxGraphs
             /\ TAGS_CACHE' = got.cache
             /\ tag_graphs' = got.memo
             /\ graph_count' = IF got.built THEN graph_count + 1
                               ELSE graph_count
        ELSE UNCHANGED <<TAGS_CACHE, tag_graphs, graph_count>>
     /\ last' = [op |-> "get_object_summary", entity_name |-> entity_name,
                 file_name |-> file_name, request |-> out.request,
                 result |-> out.result, window_before |-> requested_tags,
                 graph |-> out.graph]
     /\ UNCHANGED <<fsVars, groupVars, cache_graphs, mapVars,
                    block_identical_calls, iteration, max_iterations>>

\* The entity and file names a request carries; None is an argument left out.
EntityNames ==
  { None, <<>>, <<"f">>, <<" ", "f">>, <<"f", "(", ")">>, <<"g">> }

FileNames == { None, <<>>, <<"a", ".", "p", "y">> }

InitInspect ==
  /\ files = [p \in AbsPaths |-> Line(<<"a">>)]
  /\ CacheEmpty
  /\ GroupNew
  /\ cache_graphs = TRUE
  /\ tag_graphs = <<>>
  /\ graph_count = 0
  /\ max_map_tokens = DefaultMapTokens
  /\ repo_content_prefix = <<>>
  /\ ranked_tags = <<>>
  /\ RenderCodeNew
  /\ requested_tags = <<>>
  /\ block_identical_calls \in 0..MaxWindow
  /\ iteration = 0
  /\ max_iterations = 1
  /\ last = NoOp

NextInspect ==
  \E entity_name \in EntityNames, file_name \in FileNames :
     get_object_summary(entity_name, file_name)

SpecInspect == InitInspect /\ [][NextInspect]_vars


(***************************************************************************)
(* ReturnToUserTool.handle_output (tools/return_to_user_tool.py)           *)
(***************************************************************************)

\* The largest max_iterations a tool is constructed with.
MaxIterations == 6

\* What the injected tests runner returns: None when the tests pass, the
\* test output otherwise.
TestOutputs == { None, <<"E">>, <<"F">> }

\* Mutant of handle_output_on: the counter is kept when it reaches
\* max_iterations.
handle_output_keeps_counter(out, confirm) ==
  LET count == iteration + 1
  IN IF out = None
     THEN [runs |-> 1, raised |-> FALSE, result |-> "passed", iteration |-> 0]
     ELSE IF count >= max_iterations
     THEN [runs |-> 1, raised |-> FALSE, result |-> "exceeded",
           iteration |-> count]
     ELSE IF confirm
     THEN [runs |-> 1, raised |-> TRUE, result |-> "InvalidOutput",
           iteration |-> count]
     ELSE [runs |-> 1, raised |-> FALSE, result |-> "failed",
           iteration |-> count]

\* handle_output with the tests runner returning out and the user answering
\* confirm: how often the runner ran, whether InvalidOutput was raised, the
\* kind of result and the counter afterwards.
handle_output_on(out, confirm) ==
  LET count == iteration + 1
  IN IF out = None
     THEN [runs |-> 1, raised |-> FALSE, result |-> "passed", iteration |-> 0]
     ELSE IF count >= max_iterations
     THEN [runs |-> 1, raised |-> FALSE, result |-> "exceeded",
           iteration |-> 0]
     ELSE IF confirm
     THEN [runs |-> 1, raised |-> TRUE, result |-> "InvalidOutput",
           iteration |-> count]
     ELSE [runs |-> 1, raised |-> FALSE, result |-> "failed",
           iteration |-> count]

\* The number of calls in a row, this one included, that raised.
Streak(raised) ==
  IF ~raised THEN 0
  ELSE IF last.op = "handle_output" THEN last.streak + 1
  ELSE 1

\* ReturnToUserTool.handle_output as one step.
handle_output(out, confirm) ==
  \E res \in { handle_output_on(out, confirm) } :
     /\ iteration' = res.iteration
     /\ last' = [op |-> "handle_output", out |-> out, confirm |-> confirm,
                 before |-> iteration, runs |-> res.runs,
                 raised |-> res.raised, result |-> res.result,
                 streak |-> Streak(res.raised)]
     /\ UNCHANGED <<fsVars, TAGS_CACHE, groupVars, graphVars, mapVars,
                    requested_tags, block_identical_calls, max_iterations>>

InitReturn ==
  /\ files = [p \in AbsPaths |-> Line(<<"a">>)]
  /\ CacheEmpty
  /\ GroupNew
  /\ cache_graphs = TRUE
  /\ tag_graphs = <<>>
  /\ graph_count = 0
  /\ max_map_tokens = DefaultMapTokens
  /\ repo_content_prefix = <<>>
  /\ ranked_tags = <<>>
  /\ RenderCodeNew
  /\ requested_tags = <<>>
  /\ block_identical_calls = DefaultBlockIdenticalCalls
  /\ iteration = 0
  /\ max_iterations \in 1..MaxIterations
  /\ last = NoOp

NextReturn ==
  \E out \in TestOutputs, confirm \in BOOLEAN : handle_output(out, confirm)

SpecReturn == InitReturn /\ [][NextReturn]_vars


(***************************************************************************)
(* build_tag_graph and only_defs (codemap/graph.py)                        *)
(***************************************************************************)

\* The most ref tags of a parsed file.
MaxRefs == 2

\* A tag of the one file parsed here: its kind, name, byte_range and the
\* names of its parents.
DefTag(name, lo, hi, parent_names) ==
  [kind |-> "def", name |-> name, byte_range |-> <<lo, hi>>,
   parent_names |-> parent_names]

RefTag(name, at) ==
  [kind |-> "ref", name |-> name, byte_range |-> <<at, at>>,
   parent_names |-> <<>>]

\* The definitions a file may hold: three functions f one after the other
\* and a g, either after them or nested in the first f.
DefChoices ==
  { {DefTag("f", 0, 9, <<>>)} \cup more \cup g :
      more \in SUBSET {DefTag("f", 10, 19, <<>>), DefTag("f", 20, 29, <<>>)},
      g \in { {}, {DefTag("g", 30, 39, <<>>)}, {DefTag("g", 2, 5, <<"f">>)} } }

\* The references a file may hold: calls of f or g inside the first f, the
\* nested g, the second f or the g at the end.
RefChoices ==
  { refs \in SUBSET { RefTag(name, at) : name \in {"f", "g"},
                                         at \in {1, 3, 11, 31} } :
      Cardinality(refs) <= MaxRefs }

\* def_map[name]
def_map(tags, name) == { t \in tags : t.kind = "def" /\ t.name = name }

Within(inner, outer) ==
  /\ inner.byte_range[1] >= outer.byte_range[1]
  /\ inner.byte_range[2] <= outer.byte_range[2]

\* build_tag_graph(tags, code_map): the nodes, the edges <<u, v>> from a
\* definition to the references inside it, from a reference to every
\* definition of its name and from a parent definition to its child, and
\* n_defs of every ref tag.
build_tag_graph(tags) ==
  [nodes |-> tags,
   edges |->
     { e \in tags \X tags :
         e[1].kind = "def" /\ e[2].kind = "ref" /\ Within(e[2], e[1]) }
     \cup { e \in tags \X tags :
              e[1].kind = "ref" /\ e[2] \in def_map(tags, e[1].name) }
     \cup { e \in tags \X tags :
              /\ e[2].parent_names /= <<>>
              /\ e[1] \in def_map(tags,
                                  e[2].parent_names[Len(e[2].parent_names)])
              /\ e[1].parent_names
                   = Take(e[2].parent_names, Len(e[2].parent_names) - 1) },
   n_defs |-> [r \in { x \in tags : x.kind = "ref" } |->
                 Cardinality(def_map(tags, r.name))]]

\* only_defs(tag_graph): the def nodes; every edge between two definitions,
\* summarized; and for every edge from a definition u to a non-definition v
\* and every edge from v to a definition other than u an edge from u to it,
\* summarized when v.n_defs <= 2. via tells parallel edges apart: the node
\* in between, or u for a copied edge.
only_defs(tag_graph) ==
  [nodes |-> { t \in tag_graph.nodes : t.kind = "def" },
   edges |->
     { [u |-> e[1], w |-> e[2], via |-> e[1], include_in_summary |-> TRUE] :
         e \in { x \in tag_graph.edges :
                   x[1].kind = "def" /\ x[2].kind = "def" } }
     \cup
     { [u |-> p[1][1], w |-> p[2][2], via |-> p[1][2],
        include_in_summary |-> tag_graph.n_defs[p[1][2]] <= 2] :
         p \in { q \in tag_graph.edges \X tag_graph.edges :
                   /\ q[1][1].kind = "def" /\ q[1][2].kind /= "def"
                   /\ q[2][1] = q[1][2]
                   /\ q[2][2].kind = "def" /\ q[2][2] /= q[1][1] } }]

\* One projection: the graph of a parsed file and its only_defs.
OnlyDefsStep ==
  /\ last.op = "init"
  /\ \E defs \in DefChoices, refs \in RefChoices :
       \E raw_graph \in { build_tag_graph(defs \cup refs) } :
         last' = [op |-> "only_defs", raw_graph |-> raw_graph,
                  graph |-> only_defs(raw_graph)]
  /\ UNCHANGED <<fsVars, TAGS_CACHE, groupVars, graphVars, mapVars, toolVars>>

InitProject ==
  /\ files = [p \in AbsPaths |-> Line(<<"a">>)]
  /\ CacheEmpty
  /\ GroupNew
  /\ RepoMapDefault
  /\ ToolsNew
  /\ last = NoOp

NextProject == OnlyDefsStep

SpecProject == InitProject /\ [][NextProject]_vars


(***************************************************************************)
(* The search specification: find_best_tag_tree one iteration at a time    *)
(***************************************************************************)

\* The locals of find_best_tag_tree when the while loop is entered.
find_best_tag_tree_entry(costs, budget) ==
  [lower_bound |-> 0, upper_bound |-> Len(costs),
   middle |-> Min(budget \div StartingGuessDivisor, Len(costs)),
   best_tree |-> None, best_tree_tokens |-> 0]

\* Mutant of find_best_tag_tree_iteration: the lower bound moves to middle.
find_best_tag_tree_iteration_stalls(costs, budget, s) ==
  LET num_tokens == token_count(costs, s.middle)
      better == budget > num_tokens /\ num_tokens > s.best_tree_tokens
      lower == IF num_tokens < budget THEN s.middle ELSE s.lower_bound
      upper == IF num_tokens < budget THEN s.upper_bound ELSE s.middle - 1
  IN [lower_bound |-> lower, upper_bound |-> upper,
      middle |-> (lower + upper) \div 2,
      best_tree |-> IF better THEN to_tree(s.middle) ELSE s.best_tree,
      best_tree_tokens |-> IF better THEN num_tokens ELSE s.best_tree_tokens]

\* One pass through the body of the while loop from the locals s.
find_best_tag_tree_iteration(costs, budget, s) ==
  LET num_tokens == token_count(costs, s.middle)
      better == budget > num_tokens /\ num_tokens > s.best_tree_tokens
      lower == IF num_tokens < budget THEN s.middle + 1 ELSE s.lower_bound
      upper == IF num_tokens < budget THEN s.upper_bound ELSE s.middle - 1
  IN [lower_bound |-> lower, upper_bound |-> upper,
      middle |-> (lower + upper) \div 2,
      best_tree |-> IF better THEN to_tree(s.middle) ELSE s.best_tree,
      best_tree_tokens |-> IF better THEN num_tokens ELSE s.best_tree_tokens]

\* find_best_tag_tree is called: the locals are set up.
SearchEnter ==
  /\ last.op = "init"
  /\ last' = [op |-> "search", probes |-> 0, rendered |-> 0,
              locals |-> find_best_tag_tree_entry(ranked_tags, max_map_tokens)]
  /\ UNCHANGED <<fsVars, TAGS_CACHE, groupVars, graphVars, mapVars, toolVars>>

\* The loop condition holds: the prefix of length middle is rendered and
\* counted and the bounds move.
SearchProbe ==
  /\ last.op = "search"
  /\ last.locals.lower_bound <= last.locals.upper_bound
  /\ last' = [op |-> "search", probes |-> last.probes + 1,
              rendered |-> last.locals.middle,
              locals |-> find_best_tag_tree_iteration(
                           ranked_tags, max_map_tokens, last.locals)]
  /\ UNCHANGED <<fsVars, TAGS_CACHE, groupVars, graphVars, mapVars, toolVars>>

\* The loop condition fails: best_tree is returned.
SearchReturn ==
  /\ last.op = "search"
  /\ last.locals.lower_bound > last.locals.upper_bound
  /\ last' = [op |-> "returned", probes |-> last.probes,
              rendered |-> last.rendered, locals |-> last.locals]
  /\ UNCHANGED <<fsVars, TAGS_CACHE, groupVars, graphVars, mapVars, toolVars>>

InitSearch ==
  /\ files = [p \in AbsPaths |-> NoFile]
  /\ CacheEmpty
  /\ GroupNew
  /\ cache_graphs = FALSE
  /\ tag_graphs = <<>>
  /\ graph_count = 0
  /\ max_map_tokens \in Budgets \ {0}
  /\ repo_content_prefix = <<>>
  /\ ranked_tags \in CostLists
  /\ RenderCodeNew
  /\ ToolsNew
  /\ last = NoOp

NextSearch == SearchEnter \/ SearchProbe \/ SearchReturn

SpecSearch == InitSearch /\ [][NextSearch]_vars

\* The call runs on: a step that can be taken is taken.
SpecSearchLive == SpecSearch /\ WF_vars(NextSearch)


(***************************************************************************)
(* The stale-rendering specification: RepoMap's renderer while files change *)
(***************************************************************************)

\* file_group.get_rel_fname on the files of the repository.
get_rel_fname(abs_fname) == IF abs_fname = "/r/a.py" THEN "a.py" ELSE "b.py"

\* The file of a relative name.
AbsOf(rel_fname) == CHOOSE p \in AbsPaths : get_rel_fname(p) = rel_fname

\* code_map[abs_fname]
CodeOf(codes, abs_fname) == (CHOOSE entry \in codes : entry[1] = abs_fname)[2]

\* The render_tree call to_tree makes for the tags of one file: the lines of
\* the tags, the code from the renderer's code_map.
to_tree_file(abs_fname, lois) ==
  /\ \E entry \in code_map : entry[1] = abs_fname
  /\ render_tree(get_rel_fname(abs_fname), lois, TRUE,
                 CodeOf(code_map, abs_fname))

InitStale ==
  /\ files = [p \in AbsPaths |-> Line(<<"a">>)]
  /\ CacheEmpty
  /\ GroupNew
  /\ RepoMapDefault
  /\ ToolsNew
  /\ last = NoOp

\* The lines of interest asked of the changing file.
StaleLois == { <<1>>, <<2, 1>> }

NextStale ==
  \/ Tick
  \/ \E text \in CacheTexts : WriteFile(EditPath, text)
  \/ \E other_fnames \in { <<>>, <<EditPath>> } :
       get_ranked_tags(<<>>, other_fnames)
  \/ \E lois \in StaleLois : to_tree_file(EditPath, lois)

SpecStale == InitStale /\ [][NextStale]_vars

(***************************************************************************)
(* The probe specification: find_similar_lines on longer files            *)
(***************************************************************************)

\* The longest file, in lines, the probe is run on.
MaxProbeLines == 9

\* The longest search block, in lines, the probe is run with.
MaxProbeSearch == 3

ProbeLineSet == { Line(<<"a">>), Line(<<"b">>) }

ProbeContents == TextsUpTo(ProbeLineSet, MaxProbeLines)

\* The search blocks: edit_file reaches the probe with a non-blank one only.
ProbeSearches == TextsUpTo(ProbeLineSet, MaxProbeSearch) \ { <<>> }

\* find_similar_lines(search, file_content) as edit_file calls it.
FindSimilarLinesStep ==
  /\ last.op = "init"
  /\ \E search \in ProbeSearches :
       last' = [op |-> "find_similar_lines", search |-> search,
                hint |-> find_similar_lines(search, files[EditPath])]
  /\ UNCHANGED <<fsVars, TAGS_CACHE, groupVars, graphVars, mapVars, toolVars>>

InitProbe ==
  /\ \E f \in ProbeContents :
       files = [p \in AbsPaths |-> IF p = EditPath THEN f ELSE NoFile]
  /\ CacheEmpty
  /\ GroupNew
  /\ RepoMapDefault
  /\ ToolsNew
  /\ last = NoOp

NextProbe == FindSimilarLinesStep

SpecProbe == InitProbe /\ [][NextProbe]_vars

(***************************************************************************)
(* The round-trip specification: an edit followed by its inverse patch     *)
(***************************************************************************)

RoundTripFileLines ==
  { Line(<<"a">>), Line(<<"b">>), Line(<<"1", "|", "a">>) }

RoundTripBlockLines == { Line(<<"a">>), Line(<<"b">>) }

\* Initial file texts; one of them lacks the final newline.
RoundTripFiles == TextsUpTo(RoundTripFileLines, MaxFileLines) \cup { <<"a">> }

\* Non-empty SEARCH and REPLACE blocks; two lack the final newline.
RoundTripBlocks ==
  (TextsUpTo(RoundTripBlockLines, MaxBlockLines) \ { <<>> })
    \cup { <<"a">>, <<"b">> }

\* edit_file(p, S, R) with different blocks S and R.
ForwardEditStep ==
  /\ last.op = "init"
  /\ \E s \in RoundTripBlocks, r \in RoundTripBlocks :
       s /= r /\ edit_file(EditPath, s, r)

\* edit_file(p, R, S), the inverse patch, right after a successful edit.
InverseEditStep ==
  /\ last.op = "edit_file"
  /\ last.applied
  /\ \E out \in { edit_file_outcome(files[EditPath], last.replace, last.search) } :
       /\ files' = [files EXCEPT ![EditPath] = out.text]
       /\ mtimes' = MtimesAfterEdit(EditPath, out)
       /\ last' = [op |-> "inverse_edit", path |-> EditPath,
                   search |-> last.replace, replace |-> last.search,
                   original |-> last.before, before |-> files[EditPath],
                   first_strategy |-> last.strategy,
                   applied |-> out.applied, raised |-> out.raised,
                   writes |-> out.writes, strategy |-> out.strategy,
                   hint |-> out.hint]
  /\ UNCHANGED <<now, TAGS_CACHE, groupVars, graphVars, mapVars, toolVars>>

InitRoundTrip ==
  /\ \E f \in RoundTripFiles :
       files = [p \in AbsPaths |-> IF p = EditPath THEN f ELSE NoFile]
  /\ CacheEmpty
  /\ GroupNew
  /\ RepoMapDefault
  /\ ToolsNew
  /\ last = NoOp

NextRoundTrip == ForwardEditStep \/ InverseEditStep

SpecRoundTrip == InitRoundTrip /\ [][NextRoundTrip]_vars

(***************************************************************************)
(* Claims about the edit engine (checked under SpecEdit)                   *)
(***************************************************************************)

\* The last step was FileGroup.edit_file on an existing file, not raising.
EditedExisting == last.op = "edit_file" /\ last.before /= NoFile

\* The prepared (newline-terminated, line-number-stripped) inputs of the last edit.
LastOrigContent == prepare_content(last.before)

LastOrigLines == prepare_lines(last.before)

LastSearchContent == prepare_content(NewlineTerminated(last.search))

LastSearchLines == prepare_lines(NewlineTerminated(last.search))

LastReplaceContent == prepare_content(NewlineTerminated(last.replace))

LastReplaceLines == prepare_lines(NewlineTerminated(last.replace))

\* The non-blank search block of the last edit occurs verbatim in the file.
OccursVerbatim ==
  /\ EditedExisting
  /\ NonBlank(last.search)
  /\ Contains(LastOrigContent, LastSearchContent)

RECURSIVE SplitOn(_, _)
\* The pieces of s between the successive (left to right, non-overlapping)
\* occurrences of the non-empty text sep.
SplitOn(s, sep) ==
  LET p == Find(s, sep, 1)
  IN IF p = 0 THEN <<s>>
     ELSE <<Take(s, p - 1)>> \o SplitOn(Drop(s, p + Len(sep) - 1), sep)

RECURSIVE JoinWith(_, _)
\* The pieces joined with glue between neighbours.
JoinWith(pieces, glue) ==
  IF Len(pieces) = 1 THEN pieces[1]
  ELSE pieces[1] \o glue \o JoinWith(Tail(pieces), glue)

\* s with only its first occurrence of sep replaced by glue (sep occurs in s).
FirstOnly(s, sep, glue) ==
  LET p == Find(s, sep, 1)
  IN Take(s, p - 1) \o glue \o Drop(s, p + Len(sep) - 1)

\* C2 as stated: when the search block occurs verbatim, the file afterwards is
\* its content with only the first occurrence substituted, later ones kept.
C2_FirstOccurrenceOnly ==
  OccursVerbatim =>
    files[EditPath] = FirstOnly(LastOrigContent, LastSearchContent, LastReplaceContent)

\* C2 amended: when the search block occurs verbatim, strategy 1 substitutes
\* every occurrence (left to right, non-overlapping) of the search block.
C2_EveryOccurrence ==
  OccursVerbatim =>
    files[EditPath] =
      JoinWith(SplitOn(LastOrigContent, LastSearchContent), LastReplaceContent)

\* C2 witness: a strategy-1 edit of a file holding the search block twice.
C2_Witness ==
  /\ OccursVerbatim
  /\ last.applied
  /\ last.strategy = "1"
  /\ Len(SplitOn(LastOrigContent, LastSearchContent)) >= 3

\* C7: edit_file on an existing file writes the file at most once, exactly when
\* it reports applied; when it reports not applied the content is unchanged.
C7_WriteIffApplied ==
  EditedExisting =>
    /\ last.writes \in {0, 1}
    /\ (last.writes = 1) <=> last.applied
    /\ last.applied => files[EditPath] /= last.before
    /\ ~last.applied => files[EditPath] = last.before

\* C7 witness: an edit of an existing file that no strategy could apply, the
\* file being one whose prepared form differs from its text.
C7_Witness ==
  /\ EditedExisting
  /\ ~last.applied
  /\ last.strategy = "0"
  /\ LastOrigContent /= last.before

\* C8: a blank search block appends the newline-terminated replace block to
\* the existing content (to nothing, for a path that did not exist) and
\* reports applied.
C8_BlankSearchAppends ==
  (last.op = "edit_file" /\ ~NonBlank(last.search)) =>
    /\ last.applied
    /\ ~last.raised
    /\ files[EditPath] =
         (IF last.before = NoFile THEN <<>> ELSE last.before)
           \o NewlineTerminated(last.replace)

\* C8 witness: a whitespace-only search on a path that did not exist, with a
\* replace block that had to be newline-terminated.
C8_Witness ==
  /\ last.op = "edit_file"
  /\ last.before = NoFile
  /\ last.search = <<" ">>
  /\ ~EndsWithNL(last.replace)
  /\ files[EditPath] = NewlineTerminated(last.replace)

\* d spaces.
Spaces(d) == [k \in 1..d |-> " "]

\* len(l) - len(l.lstrip()) of a line.
LeadingWs(l) == CountLeading(l, 1, Whitespace)

\* The lines of the file window that starts at line i and spans n lines.
Window(lines, i, n) == SubSeq(lines, i, i + n - 1)

\* The starts of the windows of |search| lines in the file of the last edit.
WindowStarts == 1..(Len(LastOrigLines) - Len(LastSearchLines) + 1)

\* The window equals the search lines with d spaces put before each non-blank one.
IndentedBy(win, slines, d) ==
  \A j \in 1..Len(slines) :
    win[j] = IF NonBlank(slines[j]) THEN Spaces(d) \o slines[j] ELSE slines[j]

\* The indents of 1 or more by which window i is the indented search block.
IndentsOf(i) ==
  { d \in 1..Len(last.before) :
      IndentedBy(Window(LastOrigLines, i, Len(LastSearchLines)), LastSearchLines, d) }

\* The windows that are the search block under one fixed indent >= 1.
IndentedWindows == { i \in WindowStarts : IndentsOf(i) /= {} }

\* The file with window i replaced by the replace lines, each non-blank one
\* prefixed by d spaces.
SplicedAt(i, d) ==
  Join(SubSeq(LastOrigLines, 1, i - 1)
       \o [j \in 1..Len(LastReplaceLines) |->
             IF NonBlank(LastReplaceLines[j])
             THEN Spaces(d) \o LastReplaceLines[j] ELSE LastReplaceLines[j]]
       \o SubSeq(LastOrigLines, i + Len(LastSearchLines), Len(LastOrigLines)))

\* The lines of the window agree with the search lines but for leading
\* whitespace, and one (possibly negative) difference of leading-whitespace
\* length holds for all the window's non-blank lines.
UniformOffset(win, slines) ==
  /\ \A j \in 1..Len(slines) : lstrip(win[j]) = lstrip(slines[j])
  /\ \E d \in (0 - Len(last.search) - 1)..Len(last.before) :
       \A j \in 1..Len(slines) :
         NonBlank(win[j]) => LeadingWs(win[j]) - LeadingWs(slines[j]) = d

\* The windows with a uniform offset.
UniformWindows ==
  { i \in WindowStarts :
      UniformOffset(Window(LastOrigLines, i, Len(LastSearchLines)), LastSearchLines) }

\* The search block of the last edit is non-blank and does not occur verbatim.
NotVerbatim ==
  /\ EditedExisting
  /\ NonBlank(last.search)
  /\ ~Contains(LastOrigContent, LastSearchContent)

\* C9, first sentence: some window is the search block under a fixed indent
\* >= 1, so strategy 2 replaces the first such window by the replace lines
\* under that indent.
C9_IndentedWindowReplaced ==
  (NotVerbatim /\ IndentedWindows /= {}) =>
    LET i == CHOOSE w \in IndentedWindows : \A v \in IndentedWindows : w <= v
        d == CHOOSE x \in IndentsOf(i) : TRUE
    IN /\ last.strategy = "2"
       /\ last.applied
       /\ files[EditPath] = SplicedAt(i, d)

\* C9, second sentence: no window has a uniform offset, so strategy 2 yields
\* nothing and the outcome is that of strategy 3.
C9_NonUniformFallsThrough ==
  (NotVerbatim /\ UniformWindows = {}) => last.strategy \in {"3", "0"}

\* C9 as stated: a search block matching a window modulo one fixed indent >= 1
\* succeeds through strategy 2 on the first such window, and without a window
\* of uniform offset strategy 2 produces no result.
C9_Strategy2 == C9_IndentedWindowReplaced /\ C9_NonUniformFallsThrough

\* The difference of leading-whitespace length between a window line and the
\* search line it is compared with.
Offset(win, slines, j) == LeadingWs(win[j]) - LeadingWs(slines[j])

\* Window i agrees with the search block but for leading whitespace, its first
\* line is non-blank and at offset d1 >= 0, and its other non-blank lines
\* (there is one at least) share the offset d >= 0.
AnomalyAt(i, d1, d) ==
  LET win == Window(LastOrigLines, i, Len(LastSearchLines))
      rest == { j \in 2..Len(LastSearchLines) : NonBlank(win[j]) }
  IN /\ \A j \in 1..Len(LastSearchLines) : lstrip(win[j]) = lstrip(LastSearchLines[j])
     /\ NonBlank(win[1])
     /\ rest /= {}
     /\ Offset(win, LastSearchLines, 1) = d1
     /\ \A j \in rest : Offset(win, LastSearchLines, j) = d

\* The windows whose first line's offset differs from the common offset of
\* their other non-blank lines.
AnomalousWindows ==
  { i \in WindowStarts :
      \E d1, d \in 0..Len(last.before) : d1 /= d /\ AnomalyAt(i, d1, d) }

\* The file with window i replaced by the replace lines, the first prefixed by
\* d1 spaces and the other non-blank ones by d spaces.
AsymmetricSplice(i, d1, d) ==
  Join(SubSeq(LastOrigLines, 1, i - 1)
       \o [j \in 1..Len(LastReplaceLines) |->
             IF ~NonBlank(LastReplaceLines[j]) THEN LastReplaceLines[j]
             ELSE Spaces(IF j = 1 THEN d1 ELSE d) \o LastReplaceLines[j]]
       \o SubSeq(LastOrigLines, i + Len(LastSearchLines), Len(LastOrigLines)))

LinePrefixes ==
  UNION { { Take(LastOrigLines[j], k) : k \in 0..Len(LastOrigLines[j]) } :
            j \in 1..Len(LastOrigLines) }

CalledKey == <<last'.path, IF last'.key \in { NoKey, "" } THEN FunctionName
                           ELSE last'.key>>

\* The step is a cached_function_call on a file whose mtime can be read.
CallOnExistingFile ==
  last'.op = "cached_function_call" /\ files[last'.path] /= NoFile

\* Before the call the cache holds an entry under the called key whose stored
\* mtime is the file's current mtime.
FreshEntry ==
  /\ TAGS_CACHE[CalledKey].present
  /\ TAGS_CACHE[CalledKey].mtime = mtimes[last'.path]

\* What the inner function computes from the file as it is at the call.
FreshResult == <<"data", files[last'.path]>>

\* C5: a cached_function_call on a file with a readable mtime invokes the
\* inner function iff the cache holds no entry under <path>::<key or function
\* name> with the file's current mtime; a hit returns the stored payload and
\* leaves the cache alone, a miss returns the fresh result and stores it with
\* the current mtime.
C5_InvokedIffNoFreshEntry ==
  [][ CallOnExistingFile =>
        /\ last'.invoked <=> ~FreshEntry
        /\ FreshEntry =>
             /\ last'.result = TAGS_CACHE[CalledKey].data
             /\ TAGS_CACHE' = TAGS_CACHE
        /\ ~FreshEntry =>
             /\ last'.result = FreshResult
             /\ TAGS_CACHE' =
                  [TAGS_CACHE EXCEPT ![CalledKey] =
                     [present |-> TRUE, mtime |-> mtimes[last'.path],
                      data |-> FreshResult]] ]_vars

\* A hit on a file that was modified after the clock advanced: the call
\* before it missed, stored the new mtime, and this one returned the payload.
C5_Witness ==
  /\ last.op = "cached_function_call"
  /\ files[last.path] /= NoFile
  /\ mtimes[last.path] > 0
  /\ ~last.invoked
  /\ last.result = <<"data", files[last.path]>>

\* C6: a cached_function_call on a missing file returns the empty list, does
\* not invoke the inner function and leaves the whole cache as it was.
C6_MissingFileSkipsCache ==
  [][ (last'.op = "cached_function_call" /\ files[last'.path] = NoFile) =>
        /\ last'.result = EmptyList
        /\ ~last'.invoked
        /\ TAGS_CACHE' = TAGS_CACHE ]_vars

\* A call on a file deleted after its tags were cached: the empty list is
\* returned and the entry stored before the deletion is still there.
C6_Witness ==
  /\ last.op = "cached_function_call"
  /\ files[last.path] = NoFile
  /\ last.result = EmptyList
  /\ ~last.invoked
  /\ TAGS_CACHE[CacheKey(last.path, last.key)].present

(***************************************************************************)
(* Claims about the graph memo, checked under SpecGraph                    *)
(***************************************************************************)

\* The graphs the memo holds.
Memoized(memo) == { memo[i].graph : i \in DOMAIN memo }

\* The graphs memoized before the step under a file set that includes the
\* file the tool was asked to edit.
GraphsOverEditedFile ==
  { tag_graphs[i].graph : i \in
      { j \in DOMAIN tag_graphs :
          abs_root_path(last'.file_path) \in Range(tag_graphs[j].files) } }

\* C1: a successful edit_file_inner on path p, relative or absolute, removes
\* from the memo every graph whose file set includes p.
C1_EditInvalidatesGraphs ==
  [][ (last'.op = "edit_file_inner" /\ last'.ok) =>
        GraphsOverEditedFile \cap Memoized(tag_graphs') = {} ]_vars

\* The files whose tags and code a graph holds.
GraphFiles(graph) == { entry[1] : entry \in graph.code_map }

\* C15: with graph memoization enabled, the graph get_tag_graph returns,
\* memoized or new, covers exactly the validated file set requested.
C15_GraphCoversRequestedSet ==
  (last.op = "get_tag_graph" /\ cache_graphs)
    => GraphFiles(last.graph) = Range(last.fnames)

(***************************************************************************)
(* Claims about the ranked graph, checked under SpecRanked                 *)
(***************************************************************************)

\* C16: the graph get_ranked_tags ranks holds tags only of files in the
\* validated union of chat_fnames and other_fnames; when that union is empty
\* the graph has no nodes.
C16_RankedGraphWithinUnion ==
  last.op = "get_ranked_tags"
    => GraphFiles(last.graph) \subseteq Range(last.cleaned)

(***************************************************************************)
(* Claims about the repository map, checked under SpecMap                  *)
(***************************************************************************)

\* C3: get_repo_map returns None when max_map_tokens <= 0 or other_fnames is
\* empty, and every string it returns, prefix included, counts at most
\* max_map_tokens tokens.
C3_NullOrWithinBudget ==
  last.op = "get_repo_map" =>
    /\ (last.budget <= 0 \/ ~last.other_fnames) => last.result = None
    /\ last.result /= None => last.tokens <= last.budget

\* The token count of the rendering grows strictly with the number of tags.
StrictlyIncreasing(costs) ==
  \A k \in 1..Len(costs) : token_count(costs, k - 1) < costs[k]

\* The numbers of tags, at least one, whose rendering is below the budget.
Feasible(costs, budget) == { k \in 1..Len(costs) : costs[k] < budget }

\* The call reached find_best_tag_tree.
Packed ==
  /\ last.op = "get_repo_map"
  /\ last.budget > 0
  /\ last.other_fnames
  /\ ~last.recursion_error

\* C4: with token counts strictly increasing in the number of tags,
\* find_best_tag_tree returns the rendering of the largest k in 1..N whose
\* token count is strictly below the budget.
C4_LargestFeasiblePrefix ==
  (/\ Packed
   /\ StrictlyIncreasing(ranked_tags)
   /\ Feasible(ranked_tags, last.budget) /= {}) =>
    \E k \in Feasible(ranked_tags, last.budget) :
       /\ \A j \in Feasible(ranked_tags, last.budget) : j <= k
       /\ last.listing = to_tree(k)

\* 42 tags cost 900 tokens, 43 tags cost 1100, the limit is 1024: the
\* 42-tag rendering is returned.
C4_Witness ==
  /\ Packed
  /\ ranked_tags = ExampleCosts
  /\ last.budget = DefaultMapTokens
  /\ last.listing = to_tree(42)

\* Some get_repo_map call so far, the last one included, met a RecursionError
\* while ranking or packing.
Overflowed == last.op = "get_repo_map" /\ last.overflowed

\* C17: a get_repo_map call in which ranking or packing raises RecursionError
\* returns None and sets max_map_tokens to 0; every later call returns None
\* without ranking anything or touching the caches, and max_map_tokens stays 0.
C17_OverflowDisablesForGood ==
  [][ /\ (last'.op = "get_repo_map" /\ last'.ranked /\ last'.recursion_error)
         => (last'.result = None /\ max_map_tokens' = 0)
      /\ Overflowed
         => /\ last'.result = None
            /\ ~last'.ranked
            /\ max_map_tokens' = 0
            /\ UNCHANGED <<TAGS_CACHE, graphVars, renderVars>> ]_vars

\* After an overflow, a call with other files and rankable tags returned None
\* without ranking.
C17_Witness ==
  /\ Overflowed
  /\ last.other_fnames
  /\ ~last.ranked
  /\ last.budget = 0
  /\ last.result = None
  /\ ranked_tags /= <<>>

(***************************************************************************)
(* Claims about the fallback chain, checked under SpecMessage              *)
(***************************************************************************)

\* The argument records of the three attempts, in the chain's order.
ChainArgs(k) ==
  IF k = 1
  THEN RepoMapArgs(files_for_modification,
                   last.all_files \ files_for_modification,
                   last.mentioned, last.search_terms, last.add_prefix)
  ELSE IF k = 2
  THEN RepoMapArgs({}, last.all_files, last.mentioned, last.search_terms,
                   last.add_prefix)
  ELSE RepoMapArgs({}, {}, {}, last.search_terms, last.add_prefix)

\* C18: repo_map_from_message calls get_repo_map one to three times, the k-th
\* call with the k-th argument record of the chain and only after every
\* earlier call returned nothing; it stops at the first non-empty result and
\* returns the result of its last call.
C18_FallbackChain ==
  last.op = "repo_map_from_message" =>
    /\ Len(last.calls) \in 1..3
    /\ \A k \in DOMAIN last.calls :
         /\ last.calls[k].args = ChainArgs(k)
         /\ k < Len(last.calls) => ~Truthy(last.calls[k].result)
    /\ Len(last.calls) < 3 => Truthy(last.result)
    /\ last.result = last.calls[Len(last.calls)].result

\* The first attempt gave nothing and the second one, over all files, gave
\* the map that was returned.
C18_Witness ==
  /\ last.op = "repo_map_from_message"
  /\ Len(last.calls) = 2
  /\ last.calls[1].args.other_fnames /= {}
  /\ last.calls[1].args.chat_fnames /= {}
  /\ Truthy(last.result)

(***************************************************************************)
(* Claims about the ranking, checked under SpecRank                        *)
(***************************************************************************)

\* A is in a chat file and mentioned as an entity, B is in no chat file, and
\* there is no other hint.
BoostCase ==
  /\ last.op = "rank_tags_new"
  /\ last.args.chat_fnames = {"/r/a.py"}
  /\ last.args.mentioned_entities \in { {"A"}, {"m.A"} }
  /\ last.args.mentioned_idents = {}
  /\ last.args.mentioned_fnames = {}

\* C19: in the boost case A comes before B in the ranked list, whatever the
\* edges between them.
C19_BoostedTagFirst ==
  BoostCase => last.ranked = <<"A", "B">>

(***************************************************************************)
(* Claims about the render memo, checked under SpecRender                  *)
(***************************************************************************)

\* C20: over any sequence of render_tree calls on one RenderCode, calls with
\* equal keys returned identical strings, and the formatter ran at most once
\* for each key.
C20_RenderMemoized ==
  last.op = "render_tree" =>
    /\ \A p \in last.returned, q \in last.returned :
         p[1] = q[1] => p[2] = q[2]
    /\ \A key \in BagToSet(last.formats) : CopiesIn(key, last.formats) <= 1

\* A call with other code and another order of the same lines was answered
\* from the memo, with the string formatted for the earlier call.
C20_Witness ==
  /\ last.op = "render_tree"
  /\ ~last.formatted
  /\ last.key = <<"a.py", <<1, 2>>>>
  /\ last.code = Line(<<"b">>)
  /\ last.result = Format("a.py", <<1, 2>>, TRUE, <<"a">>)

(***************************************************************************)
(* Claims about the `...` strategy, checked under SpecEdit                 *)
(***************************************************************************)

\* The last step was edit_file on an existing file with a non-blank search
\* block that neither strategy 1 nor strategy 2 resolved.
ReachedDots ==
  /\ EditedExisting
  /\ NonBlank(last.search)
  /\ last.strategy \in { "0", "3" }

\* The pieces re.split cuts the prepared search and replace blocks into.
LastSearchPieces == SplitDots(LastSearchContent)

LastReplacePieces == SplitDots(LastReplaceContent)

\* The blocks hold different numbers of `...` marker lines.
UnequalMarkers == Len(LastSearchPieces) /= Len(LastReplacePieces)

\* The blocks hold the same markers, at least one.
PairedMarkers ==
  /\ Len(LastSearchPieces) = Len(LastReplacePieces)
  /\ Len(LastSearchPieces) > 1
  /\ \A i \in 1..Len(LastSearchPieces) :
       i % 2 = 0 => LastSearchPieces[i] = LastReplacePieces[i]

\* Some non-empty search piece occurs zero times or more than once in the
\* content as it is when its pair is processed.
PieceNotUnique ==
  /\ PairedMarkers
  /\ ApplyPairs(LastOrigContent, EvenPieces(LastSearchPieces),
                EvenPieces(LastReplacePieces), 1) = ValueError

\* edit_file returned the ordinary no-exact-match result: (False, close_match).
OrdinaryNoMatch == ~last.applied /\ ~last.raised

\* C11: an ellipsis block with unequal marker counts, or with a search piece
\* that does not occur exactly once, fails with an outcome other than the
\* ordinary no-exact-match result, and the file is unchanged.
C11_AmbiguousEllipsisDistinctError ==
  (ReachedDots /\ (UnequalMarkers \/ PieceNotUnique)) =>
    /\ ~last.applied
    /\ ~OrdinaryNoMatch
    /\ files[EditPath] = last.before

\* The content with its single occurrence of piece replaced by replacement.
SubstitutedOnce(content, piece, replacement) ==
  LET at == Find(content, piece, 1)
  IN Take(content, at - 1) \o replacement \o Drop(content, at - 1 + Len(piece))

RECURSIVE PairsInOrder(_, _, _, _)
\* The piece pairs from pair k on, applied in order to the evolving content:
\* an empty search piece appends its replace piece at the end, any other
\* search piece is substituted where it occurs, which must be exactly once.
PairsInOrder(content, search_pieces, replace_pieces, k) ==
  IF k > Len(search_pieces) THEN content
  ELSE IF search_pieces[k] = <<>>
  THEN PairsInOrder(content \o replace_pieces[k],
                    search_pieces, replace_pieces, k + 1)
  ELSE IF Count(content, search_pieces[k]) /= 1 THEN ValueError
  ELSE PairsInOrder(SubstitutedOnce(content, search_pieces[k], replace_pieces[k]),
                    search_pieces, replace_pieces, k + 1)

\* What the pairs of the last edit give when applied in order.
LastPairsInOrder ==
  PairsInOrder(LastOrigContent, EvenPieces(LastSearchPieces),
               EvenPieces(LastReplacePieces), 1)

\* C12: with paired markers, strategy 3 returns the content after all piece
\* pairs were applied in order, an empty search piece appending its replace
\* piece at the end of the content and every other search piece being
\* substituted at its single occurrence.
C12_PairsAppliedInOrder ==
  (ReachedDots /\ PairedMarkers /\ LastPairsInOrder /= ValueError) =>
    replace_part(last.before, last.search, last.replace) = LastPairsInOrder

(***************************************************************************)
(* Claims about the close-match probe, checked under SpecProbe             *)
(***************************************************************************)

Probed == last.op = "find_similar_lines"

\* The starts of the windows of |search| lines in the file.
ProbeWindows(search_lines, content_lines) ==
  1..(Len(content_lines) - Len(search_lines) + 1)

ProbeWindow(search_lines, content_lines, i) ==
  SubSeq(content_lines, i, i + Len(search_lines) - 1)

\* The matched lines, doubled, of the window at i: the numerator of ratio().
Matches(search_lines, content_lines, i) ==
  ratio(search_lines, ProbeWindow(search_lines, content_lines, i))[1]

RECURSIVE MostMatches(_, _, _)
\* The highest numerator over the windows from i on.
MostMatches(search_lines, content_lines, i) ==
  IF i \notin ProbeWindows(search_lines, content_lines) THEN 0
  ELSE Max(Matches(search_lines, content_lines, i),
           MostMatches(search_lines, content_lines, i + 1))

\* The first window of the highest similarity to the search lines, and that
\* similarity as a fraction; <<0, <<0, 1>>>> when the file has no window.
BestWindow(search_lines, content_lines) ==
  LET windows == ProbeWindows(search_lines, content_lines)
      most == MostMatches(search_lines, content_lines, 1)
  IN IF windows = {} THEN <<0, <<0, 1>>>>
     ELSE <<CHOOSE i \in windows :
              /\ Matches(search_lines, content_lines, i) = most
              /\ \A j \in 1..(i - 1) :
                   Matches(search_lines, content_lines, j) < most,
            <<most, 2 * Len(search_lines)>>>>

\* The file has fewer lines than the search block, or the best similarity is
\* below 0.6.
BelowThreshold(best) == best[1] = 0 \/ best[2][1] * 10 < 6 * best[2][2]

\* The window at i with up to 5 lines of the file before and after it.
WindowInContext(search_lines, content_lines, i) ==
  JoinLines(SubSeq(content_lines, Max(1, i - 5),
                   Min(Len(content_lines), i + Len(search_lines) - 1 + 5)))

\* The window begins and ends with the lines the search block begins and
\* ends with.
EndsAgree(search_lines, window) ==
  /\ window[1] = search_lines[1]
  /\ window[Len(search_lines)] = search_lines[Len(search_lines)]

\* C13 as stated: no hint below the threshold, otherwise the best window with
\* up to 5 lines of context on each side.
C13_BestWindowInContext ==
  Probed =>
    LET search_lines == SplitLines(last.search)
        content_lines == SplitLines(files[EditPath])
        best == BestWindow(search_lines, content_lines)
    IN last.hint = IF BelowThreshold(best) THEN <<>>
                   ELSE WindowInContext(search_lines, content_lines, best[1])

\* C13 amended: no hint below the threshold; the best window alone when its
\* first and last lines are those of the search block; otherwise the best
\* window with up to 5 lines of context on each side.
C13_ContextUnlessEndsAgree ==
  Probed =>
    LET search_lines == SplitLines(last.search)
        content_lines == SplitLines(files[EditPath])
        best == BestWindow(search_lines, content_lines)
        window == ProbeWindow(search_lines, content_lines, best[1])
    IN last.hint = IF BelowThreshold(best) THEN <<>>
                   ELSE IF EndsAgree(search_lines, window) THEN JoinLines(window)
                   ELSE WindowInContext(search_lines, content_lines, best[1])

\* C13 witness: a hint with context, the best window lying so deep in the
\* file that lines before the context are left out and the context after it
\* is clipped at the end of the file.
C13_Witness ==
  /\ Probed
  /\ LET search_lines == SplitLines(last.search)
         content_lines == SplitLines(files[EditPath])
         best == BestWindow(search_lines, content_lines)
     IN /\ ~BelowThreshold(best)
        /\ ~EndsAgree(search_lines,
                      ProbeWindow(search_lines, content_lines, best[1]))
        /\ best[1] > 6
        /\ last.hint = WindowInContext(search_lines, content_lines, best[1])
        /\ last.hint /= JoinLines(content_lines)

(***************************************************************************)
(* Claims about inverse patches (checked under SpecRoundTrip)              *)
(***************************************************************************)

\* The last step was the inverse patch of an edit that matched verbatim
\* (strategy 1).
InverseOfExact == last.op = "inverse_edit" /\ last.first_strategy = "1"

\* The prepared original file and blocks of the round trip; last.replace is
\* the first edit's SEARCH block S and last.search its REPLACE block R.
RoundTripOrig == prepare_content(last.original)

RoundTripS == prepare_content(NewlineTerminated(last.replace))

RoundTripR == prepare_content(NewlineTerminated(last.search))

\* In the original with every occurrence of S replaced by R, the text R
\* occurs only at the replaced places.
ReplaceOnlyWherePut ==
  SplitOn(JoinWith(SplitOn(RoundTripOrig, RoundTripS), RoundTripR), RoundTripR)
    = SplitOn(RoundTripOrig, RoundTripS)

Inspected == last.op = "get_object_summary"

\* The window holds the pairs of the latest requests, at most
\* block_identical_calls of them.
WindowBounded == Len(requested_tags) <= block_identical_calls

\* The request was in the window: the short-circuit message, no graph, the
\* window as it was.
ShortCircuited ==
  /\ last.result = "already"
  /\ ~last.graph
  /\ requested_tags = last.window_before

\* The request was answered from the graph and is the newest of the window,
\* the oldest entry dropped when the window was full.
AnsweredAndAppended ==
  /\ last.result = "answered"
  /\ requested_tags
       = DequeAppend(last.window_before, last.request, block_identical_calls)

\* C21 as stated: every request is short-circuited when its normalized pair
\* is in the window and is answered and appended when it is not.
C21_EveryRequestWindowed ==
  Inspected =>
    /\ WindowBounded
    /\ IF InWindow(last.window_before, last.request) THEN ShortCircuited
       ELSE AnsweredAndAppended

\* C21 amended: that holds for every request that names an entity or a file;
\* a request that names neither gets the "please supply" answer, reaches no
\* graph and leaves the window as it was.
C21_NamedRequestWindowed ==
  Inspected =>
    /\ WindowBounded
    /\ IF last.request = <<None, None>>
       THEN /\ last.result = "supply"
            /\ ~last.graph
            /\ requested_tags = last.window_before
       ELSE IF InWindow(last.window_before, last.request) THEN ShortCircuited
       ELSE AnsweredAndAppended

\* With a full window of two, "f()" was refused as the repeat of "f", and
\* elsewhere a new request evicted the oldest entry.
C21_Witness ==
  /\ Inspected
  /\ block_identical_calls = 2
  /\ Len(last.window_before) = 2
  /\ last.entity_name = <<"f", "(", ")">>
  /\ last.request[1] = <<"f">>
  /\ ShortCircuited


(***************************************************************************)
(* Claims about the return tool, checked under SpecReturn                  *)
(***************************************************************************)

Handled == last.op = "handle_output"

\* C22: a call runs the tests runner once; it raises InvalidOutput exactly
\* when the tests failed, the counter it incremented is below max_iterations
\* and the user confirmed; at most max_iterations - 1 calls in a row raise;
\* a call whose tests pass, and a failing call whose counter reaches
\* max_iterations, return normally with the counter back at 0.
C22_EscalationBounded ==
  Handled =>
    /\ last.runs = 1
    /\ last.raised
         <=> (last.out /= None /\ last.before + 1 < max_iterations
              /\ last.confirm)
    /\ last.streak <= max_iterations - 1
    /\ last.out = None => ~last.raised /\ iteration = 0
    /\ (last.out /= None /\ last.before + 1 >= max_iterations)
         => ~last.raised /\ last.result = "exceeded" /\ iteration = 0
    /\ iteration < max_iterations

\* After max_iterations - 1 = 2 calls in a row raised, the next failing call
\* came back normally and the counter is 0 again.
C22_Witness ==
  /\ Handled
  /\ max_iterations = 3
  /\ last.before = 2
  /\ last.out /= None
  /\ last.confirm
  /\ last.result = "exceeded"
  /\ iteration = 0


(***************************************************************************)
(* Claims about diffusion, checked under SpecRank                          *)
(***************************************************************************)

\* The weight the list of <<tag, weight, ...>> entries gives to tag t.
WeightIn(entries, t) ==
  LET i == CHOOSE j \in DOMAIN entries : entries[j][1] = t
  IN entries[i][2]

RECURSIVE SumOver(_, _)
\* The sum of f[x] over the x of S.
SumOver(f, S) ==
  IF S = {} THEN 0
  ELSE LET x == CHOOSE y \in S : TRUE IN f[x] + SumOver(f, S \ {x})

\* C23: the final weight of every node v is its weight before diffusion plus
\* diffusion_mult times the weights before diffusion of the sources of all
\* edges into v, parallel edges counted one by one, whatever the order of
\* the nodes; the ranked list is a permutation of the nodes with weights
\* that never increase.
C23_DiffusionOneHop ==
  last.op = "rank_tags_new" =>
    /\ \A v \in Tags :
         DiffusionDivisor * WeightIn(last.node_list, v)
           = DiffusionDivisor * WeightIn(last.G1, v)
             + SumOver([u \in Tags |->
                          last.edges[<<u, v>>] * WeightIn(last.G1, u)], Tags)
    /\ Len(last.ranked) = Len(last.nodes)
    /\ Range(last.ranked) = Range(last.nodes)
    /\ \A i, j \in DOMAIN last.ranked :
         i < j => WeightIn(last.node_list, last.ranked[i])
                    >= WeightIn(last.node_list, last.ranked[j])

\* Both tags carry weight before diffusion, A has three edges to B and B
\* one back to A: a second hop or a merged parallel edge would show.
C23_Witness ==
  /\ last.op = "rank_tags_new"
  /\ last.edges[<<"A", "B">>] = 3
  /\ last.edges[<<"B", "A">>] = 1
  /\ WeightIn(last.G1, "A") > 0
  /\ WeightIn(last.G1, "B") > 0
  /\ last.nodes = <<"B", "A">>
  /\ WeightIn(last.node_list, "B")
       = WeightIn(last.G1, "B") + 3 * (WeightIn(last.G1, "A") \div 5)


(***************************************************************************)
(* Claims about the defs-only projection, checked under SpecProject        *)
(***************************************************************************)

\* The projection has an edge from u to w that is summarized exactly when
\* v.n_defs <= 2.
PromotedEdge(u, v, w) ==
  \E e \in last.graph.edges :
     /\ e.u = u
     /\ e.w = w
     /\ e.include_in_summary <=> (last.raw_graph.n_defs[v] <= 2)

\* C24: the nodes of the projection are the def tags of the input graph,
\* and every path from a definition u over a reference v to a definition w,
\* w = u included, has its edge from u to w in the projection, summarized
\* exactly when v.n_defs <= 2.
C24_TwoHopPromoted ==
  last.op = "only_defs" =>
    /\ last.graph.nodes = { t \in last.raw_graph.nodes : t.kind = "def" }
    /\ \A e1, e2 \in last.raw_graph.edges :
         (/\ e1[1].kind = "def" /\ e1[2].kind = "ref"
          /\ e2[1] = e1[2] /\ e2[2].kind = "def")
           => PromotedEdge(e1[1], e1[2], e2[2])

\* The same for the paths that end at another definition than u.
OtherDefsPromoted ==
  last.op = "only_defs" =>
    /\ last.graph.nodes = { t \in last.raw_graph.nodes : t.kind = "def" }
    /\ \A e1, e2 \in last.raw_graph.edges :
         (/\ e1[1].kind = "def" /\ e1[2].kind = "ref"
          /\ e2[1] = e1[2] /\ e2[2].kind = "def" /\ e2[2] /= e1[1])
           => PromotedEdge(e1[1], e1[2], e2[2])


(***************************************************************************)
(* Claims about the packing loop, checked under SpecSearchLive             *)
(***************************************************************************)

\* Every probe renders a prefix of the ranked list, and the loop is entered
\* only with middle between the bounds.
ProbeWithinList ==
  /\ last.op \in {"search", "returned"} =>
       /\ 0 <= last.rendered
       /\ last.rendered <= Len(ranked_tags)
  /\ (last.op = "search"
      /\ last.locals.lower_bound <= last.locals.upper_bound) =>
       /\ 0 <= last.locals.lower_bound
       /\ last.locals.lower_bound <= last.locals.middle
       /\ last.locals.middle <= last.locals.upper_bound
       /\ last.locals.upper_bound <= Len(ranked_tags)

\* An iteration brings the bounds closer.
ProbeNarrows ==
  (last.op = "search" /\ last'.op = "search") =>
    last'.locals.upper_bound - last'.locals.lower_bound
      < last.locals.upper_bound - last.locals.lower_bound

\* What the loop returns is what find_best_tag_tree gives.
ReturnsBestTree ==
  last.op = "returned" =>
    last.locals.best_tree = find_best_tag_tree(ranked_tags, max_map_tokens)

\* C25: for every ranked list, positive budget and tokenizer the loop of
\* find_best_tag_tree ends, every probe renders a prefix of length middle
\* with 0 <= middle <= N, and upper_bound - lower_bound gets smaller with
\* every iteration.
C25_SearchTerminates ==
  /\ [](ProbeWithinList /\ ReturnsBestTree)
  /\ [][ProbeNarrows]_vars
  /\ <>(last.op = "returned")

\* A search over three tags whose token counts go down along the list ended
\* after probing the whole list and then shorter prefixes.
C25_Witness ==
  /\ last.op = "returned"
  /\ Len(ranked_tags) = 3
  /\ ranked_tags[1] > ranked_tags[3]
  /\ last.probes >= 2
  /\ last.rendered < 3


(***************************************************************************)
(* Claims about the offset of strategy 2, checked under SpecEdit           *)
(***************************************************************************)

\* The search lines as strategy 2 compares them: outdented by the least
\* indent of the non-blank search and replace lines.
OutdentedSearchLines ==
  Outdent(LastSearchLines, NumLeading(LastSearchLines, LastReplaceLines))

\* The window strategy 2 accepted: the first one with an offset.
AcceptedWindow ==
  LET wins == MatchingWindows(LastOrigLines, OutdentedSearchLines)
      i == CHOOSE w \in wins : \A v \in wins : w <= v
  IN Window(LastOrigLines, i, Len(OutdentedSearchLines))

\* The offset match_but_for_leading_whitespace returned for that window.
AcceptedOffset ==
  match_but_for_leading_whitespace(AcceptedWindow, OutdentedSearchLines)

\* C26: when strategy 2 accepts a window, the offset it puts before the
\* non-blank replace lines is whitespace only, and every non-blank line of
\* the window is that offset followed by the outdented search line, also
\* when a search line is indented more than the file line.
C26_OffsetIsWhitespace ==
  (EditedExisting /\ last.strategy = "2") =>
    /\ \A k \in DOMAIN AcceptedOffset : AcceptedOffset[k] \in Whitespace
    /\ \A j \in DOMAIN AcceptedWindow :
         NonBlank(AcceptedWindow[j]) =>
           AcceptedWindow[j] = AcceptedOffset \o OutdentedSearchLines[j]

\* The offset strategy 2 used holds a character that is not whitespace.
C26_OffsetHoldsText ==
  /\ EditedExisting
  /\ last.strategy = "2"
  /\ \E k \in DOMAIN AcceptedOffset : AcceptedOffset[k] \notin Whitespace


(***************************************************************************)
(* Claims about what an edit leaves alone, checked under SpecEdit          *)
(***************************************************************************)

\* The lines of the file as it was before the last edit, and as it is now.
RawLines == SplitLinesKeepEnds(last.before)

NewLines == SplitLinesKeepEnds(files[EditPath])

RECURSIVE LineStart(_, _)
\* The position in "".join(lines) at which line k starts.
LineStart(lines, k) ==
  IF k = 1 THEN 1 ELSE LineStart(lines, k - 1) + Len(lines[k - 1])

\* The lines of the prepared file that an occurrence of the search content
\* reaches into (strategy 1), or that the accepted window spans (strategy 2).
TouchedLines ==
  IF last.strategy = "1"
  THEN { k \in DOMAIN LastOrigLines :
           \E pos \in 1..Len(LastOrigContent) :
              /\ StartsWithAt(LastOrigContent, LastSearchContent, pos)
              /\ pos < LineStart(LastOrigLines, k) + Len(LastOrigLines[k])
              /\ pos + Len(LastSearchContent) > LineStart(LastOrigLines, k) }
  ELSE LET wins == MatchingWindows(LastOrigLines, OutdentedSearchLines)
           i == CHOOSE w \in wins : \A v \in wins : w <= v
       IN i..(i + Len(OutdentedSearchLines) - 1)

\* C27: an edit that succeeds through strategy 1 or 2 leaves every line of
\* the file before the matched region and every line after it as it was,
\* byte for byte, lines that start with a line-number prefix included.
C27_OnlyMatchedRegionChanges ==
  (/\ EditedExisting
   /\ last.applied
   /\ NonBlank(last.search)
   /\ last.strategy \in {"1", "2"}) =>
    LET n == Len(RawLines)
        m == Len(NewLines)
    IN \A k \in 1..n :
         /\ (\A t \in TouchedLines : k < t) =>
              k <= m /\ NewLines[k] = RawLines[k]
         /\ (\A t \in TouchedLines : k > t) =>
              m - (n - k) >= 1 /\ NewLines[m - (n - k)] = RawLines[k]


(***************************************************************************)
(* Claims about renderings after a change, checked under SpecStale         *)
(***************************************************************************)

\* The file the last render_tree call was about.
RenderedFile == AbsOf(last.key[1])

\* The renderer's code_map holds the present text of the rendered file: the
\* graph was built after the file's last change.
GraphIsCurrent ==
  /\ last.op = "render_tree"
  /\ \E entry \in code_map :
        entry[1] = RenderedFile /\ entry[2] = files[RenderedFile]

\* C28: once the graph has been rebuilt after a change of a file, rendering
\* the file through RepoMap's renderer gives the rendering of its new
\* content for the lines asked, not one memoized before the change.
C28_RenderReflectsRebuild ==
  GraphIsCurrent =>
    last.result
      = Format(last.key[1], last.key[2], TRUE, files[RenderedFile])


(***************************************************************************)
(* Claims about failed edits of missing files, checked under SpecGraph     *)
(***************************************************************************)

\* The tool was asked to edit a path that did not exist, with a non-blank
\* search block, and the edit did not succeed.
FailedEditOfMissingFile ==
  /\ last.op = "edit_file_inner"
  /\ last.before = NoFile
  /\ NonBlank(last.search)
  /\ ~last.ok

\* C29: a failed edit of a missing path with a non-blank search block
\* leaves the file system as it was: the file is not created.
C29_FailedEditCreatesNothing ==
  FailedEditOfMissingFile => files[abs_root_path(last.file_path)] = NoFile


(***************************************************************************)
(* Claims about the unhinted attempt, checked under SpecMessage            *)
(***************************************************************************)

=============================================================================
